---- MODULE Spec2Model ----
(***************************************************************************)
(* Fallback router, agent loop and tool executor of the terminal coding    *)
(* agent (src/core/llm/router.ts, src/core/agent.ts, src/core/tools.ts,    *)
(* src/utils/safety.ts, src/utils/path.ts).                                *)
(*                                                                         *)
(* Representation.  A JavaScript string whose characters the code inspects *)
(* (error messages, user input, paths) is a tuple of one-character         *)
(* strings; Str turns it into an opaque string where the code only passes  *)
(* it on.  A JavaScript value that may be undefined, a number or a string  *)
(* is a record [t, n, s].  One session is one Agent with one Router; the   *)
(* program is single threaded, pc is the place where it is suspended.      *)
(***************************************************************************)
EXTENDS Integers, Sequences, FiniteSets, TLC

\* ------------------------------------------------------------------ bounds
MaxProviders == 3      \* longest cascade
MaxLines == 2          \* user lines per session
MaxLineCalls == 2      \* calls the backends ask for while one user line is processed
MaxCalls == 2          \* calls per model result
MaxHistory == 3        \* turns of a history handed to the Router on its own
MaxPieces == 3         \* pieces (text, marker spans, broken markers) of a response text
MaxPathSegs == 3       \* segments of a path argument

\* ------------------------------------------------------- JavaScript values
JsUndef == [t |-> "undefined", n |-> 0, s |-> <<>>]
JsNum(k) == [t |-> "number", n |-> k, s |-> <<>>]
JsStr(chars) == [t |-> "string", n |-> 0, s |-> chars]

\* a ?? b ?? c : the first operand that is not undefined
Coalesce(vals) ==
  IF \E k \in 1..Len(vals) : vals[k].t # "undefined"
  THEN vals[CHOOSE k \in 1..Len(vals) :
              /\ vals[k].t # "undefined"
              /\ \A j \in 1..(k - 1) : vals[j].t = "undefined"]
  ELSE JsUndef

DigitChars == <<"0", "1", "2", "3", "4", "5", "6", "7", "8", "9">>

RECURSIVE Decimal(_)
Decimal(k) == IF k < 10 THEN <<DigitChars[k + 1]>>
              ELSE Decimal(k \div 10) \o <<DigitChars[(k % 10) + 1]>>

\* String(v) for the values an error message can hold
ToJsString(v) == IF v.t = "string" THEN v.s
                 ELSE IF v.t = "number" THEN Decimal(v.n)
                 ELSE <<"u", "n", "d", "e", "f", "i", "n", "e", "d">>

\* hay.includes(needle)
Includes(hay, needle) ==
  \E k \in 0..(Len(hay) - Len(needle)) : SubSeq(hay, k + 1, k + Len(needle)) = needle

RECURSIVE Str(_)
Str(chars) == IF chars = <<>> THEN "" ELSE chars[1] \o Str(Tail(chars))

\* ------------------------------------------------------------ router.ts
\* error codes of the network layer
ECONNRESET == <<"E", "C", "O", "N", "N", "R", "E", "S", "E", "T">>
ETIMEDOUT == <<"E", "T", "I", "M", "E", "D", "O", "U", "T">>
ENOTFOUND == <<"E", "N", "O", "T", "F", "O", "U", "N", "D">>
EPIPE == <<"E", "P", "I", "P", "E">>

\* error?.status ?? error?.statusCode ?? error?.response?.status
ErrorStatus(error) == Coalesce(<<error.status, error.statusCode, error.responseStatus>>)

IsNum(v, k) == v.t = "number" /\ v.n = k
IsCode(v, name) == v.t = "string" /\ v.s = name

ErrorMessage(error) ==
  ToJsString(IF error.message.t = "undefined" THEN JsStr(<<>>) ELSE error.message)

\* slip: the DNS failure code is missing from the list of codes
isRetryableErrorNoDns(error) ==
  LET status == ErrorStatus(error)
      code == error.code
      msg == ErrorMessage(error)
  IN IF IsNum(status, 429) \/ IsNum(status, 500) \/ IsNum(status, 503) THEN TRUE
     ELSE IF IsCode(code, ECONNRESET) \/ IsCode(code, ETIMEDOUT) THEN TRUE
     ELSE IF \/ Includes(msg, <<"4", "2", "9">>)
             \/ Includes(msg, <<"5", "0", "0">>)
             \/ Includes(msg, <<"5", "0", "3">>)
             \/ Includes(msg, <<"r", "a", "t", "e", " ", "l", "i", "m", "i", "t">>) THEN TRUE
     ELSE FALSE

isRetryableError(error) ==
  LET status == ErrorStatus(error)
      code == error.code
      msg == ErrorMessage(error)
  IN IF IsNum(status, 429) \/ IsNum(status, 500) \/ IsNum(status, 503) THEN TRUE
     ELSE IF IsCode(code, ECONNRESET) \/ IsCode(code, ETIMEDOUT) \/ IsCode(code, ENOTFOUND) THEN TRUE
     ELSE IF \/ Includes(msg, <<"4", "2", "9">>)
             \/ Includes(msg, <<"5", "0", "0">>)
             \/ Includes(msg, <<"5", "0", "3">>)
             \/ Includes(msg, <<"r", "a", "t", "e", " ", "l", "i", "m", "i", "t">>) THEN TRUE
     ELSE FALSE

\* ------------------------------------------------------------- path.ts
Slash == "/"
PROJECT_ROOT == <<"/", "w", "o", "r", "k">>

StartsWith(s, prefix) ==
  Len(prefix) <= Len(s) /\ SubSeq(s, 1, Len(prefix)) = prefix

\* s.split('/')
RECURSIVE SplitPath(_)
SplitPath(s) ==
  IF \A k \in 1..Len(s) : s[k] # Slash THEN <<s>>
  ELSE LET k == CHOOSE j \in 1..Len(s) : s[j] = Slash /\ \A m \in 1..(j - 1) : s[m] # Slash
       IN <<SubSeq(s, 1, k - 1)>> \o SplitPath(SubSeq(s, k + 1, Len(s)))

\* lexical normalisation of the segments: '' and '.' vanish, '..' drops the
\* segment before it (and vanishes at the filesystem root)
RECURSIVE NormalizeSegments(_, _)
NormalizeSegments(done, todo) ==
  IF todo = <<>> THEN done
  ELSE LET seg == todo[1]
       IN IF seg = <<>> \/ seg = <<".">> THEN NormalizeSegments(done, Tail(todo))
          ELSE IF seg = <<".", ".">>
               THEN NormalizeSegments(IF done = <<>> THEN done ELSE SubSeq(done, 1, Len(done) - 1),
                                      Tail(todo))
               ELSE NormalizeSegments(Append(done, seg), Tail(todo))

RECURSIVE JoinSegments(_)
JoinSegments(segs) ==
  IF segs = <<>> THEN <<>> ELSE <<Slash>> \o segs[1] \o JoinSegments(Tail(segs))

\* path.resolve(from, to) on POSIX paths
PathResolve(from, to) ==
  LET whole == IF to # <<>> /\ to[1] = Slash THEN to ELSE from \o <<Slash>> \o to
      segs == NormalizeSegments(<<>>, SplitPath(whole))
  IN IF segs = <<>> THEN <<Slash>> ELSE JoinSegments(segs)

\* path.dirname of an absolute normalised path
PathDirname(p) ==
  LET segs == NormalizeSegments(<<>>, SplitPath(p))
  IN IF Len(segs) <= 1 THEN <<Slash>> ELSE JoinSegments(SubSeq(segs, 1, Len(segs) - 1))

PathBasename(p) ==
  LET segs == NormalizeSegments(<<>>, SplitPath(p))
  IN IF segs = <<>> THEN <<>> ELSE segs[Len(segs)]

\* slip: the root is compared as a prefix, without the separator
resolveProjectPathPrefixOnly(relativeOrAbsolute) ==
  IF relativeOrAbsolute.t # "string" \/ relativeOrAbsolute.s = <<>>
  THEN [ok |-> FALSE, path |-> <<>>, message |-> "Path is required"]
  ELSE LET resolved == PathResolve(PROJECT_ROOT, relativeOrAbsolute.s)
       IN IF ~StartsWith(resolved, PROJECT_ROOT)
          THEN [ok |-> FALSE, path |-> <<>>, message |-> "Access outside project root is not allowed"]
          ELSE [ok |-> TRUE, path |-> resolved, message |-> ""]

\* resolveProjectPath: [ok, path, message]; ok = FALSE is the thrown Error
resolveProjectPath(relativeOrAbsolute) ==
  IF relativeOrAbsolute.t # "string" \/ relativeOrAbsolute.s = <<>>
  THEN [ok |-> FALSE, path |-> <<>>, message |-> "Path is required"]
  ELSE LET resolved == PathResolve(PROJECT_ROOT, relativeOrAbsolute.s)
           normalizedRoot == PathResolve(PROJECT_ROOT, <<".">>) \o <<Slash>>
           normalizedResolved == resolved
       IN IF ~StartsWith(normalizedResolved, normalizedRoot) /\ normalizedResolved # PROJECT_ROOT
          THEN [ok |-> FALSE, path |-> <<>>, message |-> "Access outside project root is not allowed"]
          ELSE [ok |-> TRUE, path |-> resolved, message |-> ""]

\* ------------------------------------------------------------ safety.ts
BLACKLIST == <<
  <<"r", "m", " ", "-", "r", "f", " ", "/">>,
  <<"m", "k", "f", "s">>,
  <<":", "(", ")", "{", " ", ":", "|", ":", "&", " ", "}", ";", ":">>,
  <<"d", "d", " ", "i", "f", "=", "/", "d", "e", "v", "/", "z", "e", "r", "o">> >>

\* slip: only the first entry of the blacklist is looked for
validateCommandFirstOnly(command) == ~Includes(command, BLACKLIST[1])

validateCommand(command) ==
  ~\E k \in 1..Len(BLACKLIST) : Includes(command, BLACKLIST[k])

\* -------------------------------------------------------------- tools.ts
ReadThreshold == 200 * 1024

\* const maxChars = 200 * 1024
maxChars == 200 * 1024

\* the text of a file as runs [ch, n], the character ch n times; every
\* character of the pools is one UTF-16 code unit
TextRun(ch, n) == [ch |-> ch, n |-> n]
Runs(chars) == [k \in 1..Len(chars) |-> TextRun(chars[k], 1)]

\* characters outside ASCII, which a string of this notation cannot hold, by
\* their code points: e with acute accent, and a CJK ideograph
EAcute == "U+00E9"
Ideograph == "U+4E16"

\* the bytes of a character in UTF-8
Utf8Bytes(ch) == IF ch = EAcute THEN 2 ELSE IF ch = Ideograph THEN 3 ELSE 1

\* Buffer.byteLength(text, 'utf-8'), which is stats.size of a file that holds text
RECURSIVE ByteLength(_)
ByteLength(text) ==
  IF text = <<>> THEN 0 ELSE text[1].n * Utf8Bytes(text[1].ch) + ByteLength(Tail(text))

\* text.slice(0, end): the first `end` code units
RECURSIVE SliceTo(_, _)
SliceTo(text, end) ==
  IF text = <<>> \/ end <= 0 THEN <<>>
  ELSE IF text[1].n >= end THEN <<TextRun(text[1].ch, end)>>
       ELSE <<text[1]>> \o SliceTo(Tail(text), end - text[1].n)

\* JSON.stringify of a string: quotes, backslashes and newlines are escaped
JsonEscapeChar(c) ==
  IF c = "\"" THEN "\\\"" ELSE IF c = "\\" THEN "\\\\" ELSE IF c = "\n" THEN "\\n" ELSE c

RECURSIVE JsonEscape(_)
JsonEscape(chars) ==
  IF chars = <<>> THEN "" ELSE JsonEscapeChar(chars[1]) \o JsonEscape(Tail(chars))

JsonString(chars) == "\"" \o JsonEscape(chars) \o "\""

\* n times the string s
RECURSIVE Repeat(_, _)
Repeat(s, n) ==
  LET Twice(half) == half \o half \o (IF n % 2 = 1 THEN s ELSE "")
  IN IF n = 0 THEN "" ELSE IF n = 1 THEN s ELSE Twice(Repeat(s, n \div 2))

RECURSIVE JsonEscapeText(_)
JsonEscapeText(text) ==
  IF text = <<>> THEN ""
  ELSE Repeat(JsonEscapeChar(text[1].ch), text[1].n) \o JsonEscapeText(Tail(text))

\* JSON.stringify of the text of a file
JsonText(text) == "\"" \o JsonEscapeText(text) \o "\""

\* a string built from literals and paths of the pools: nothing to escape
JsonPlain(text) == "\"" \o text \o "\""

JsonBool(b) == IF b THEN "true" ELSE "false"

RECURSIVE JsonEntries(_)
JsonEntries(entries) ==
  IF entries = <<>> THEN ""
  ELSE "{\"name\":" \o JsonString(entries[1].name) \o ",\"type\":" \o JsonPlain(entries[1].type) \o "}"
       \o (IF Len(entries) > 1 THEN "," ELSE "") \o JsonEntries(Tail(entries))

\* JSON.stringify(result) for the result objects the executor returns
JSONStringify(result) ==
  CASE result.kind = "error" -> "{\"error\":" \o JsonPlain(result.error) \o "}"
    [] result.kind = "cancelled" -> "{\"status\":\"cancelled_by_user\"}"
    [] result.kind = "entries" -> "[" \o JsonEntries(result.entries) \o "]"
    [] result.kind = "read" ->
         "{\"content\":" \o JsonText(result.content)
           \o ",\"truncated\":" \o JsonBool(result.truncated)
           \o ",\"size\":" \o Str(Decimal(result.size)) \o "}"
    [] result.kind = "preview" ->
         "{\"content\":" \o JsonText(result.content)
           \o ",\"truncated\":" \o JsonBool(result.truncated)
           \o ",\"size\":" \o Str(Decimal(result.size))
           \o ",\"returnedSize\":" \o Str(Decimal(result.returnedSize))
           \o ",\"note\":" \o JsonPlain(result.note) \o "}"
    [] result.kind = "written" ->
         "{\"status\":\"success\",\"message\":" \o JsonPlain(result.message) \o "}"
    [] result.kind = "command" ->
         "{\"stdout\":" \o JsonString(result.stdout)
           \o ",\"stderr\":" \o JsonString(result.stderr)
           \o ",\"exitCode\":" \o Str(Decimal(result.exitCode)) \o "}"

ErrorResult(message) == [kind |-> "error", error |-> message]
CancelledResult == [kind |-> "cancelled"]

\* ------------------------------------------------ the environment's inputs
Err(status, statusCode, responseStatus, code, message) ==
  [status |-> status, statusCode |-> statusCode, responseStatus |-> responseStatus,
   code |-> code, message |-> message]

StatusValues == {JsUndef, JsNum(429), JsNum(500), JsNum(503), JsNum(404), JsStr(<<"4", "2", "9">>)}
CodeValues == {JsUndef, JsStr(ECONNRESET), JsStr(ETIMEDOUT), JsStr(ENOTFOUND), JsStr(EPIPE)}
MessageValues == {JsUndef, JsStr(<<>>), JsStr(<<"h", "i", "t", " ", "r", "a", "t", "e", " ", "l", "i", "m", "i", "t">>), JsStr(<<"R", "a", "t", "e", " ", "L", "i", "m", "i", "t">>),
                  JsStr(<<"i", "d", " ", "1", "5", "0", "0", "3">>), JsStr(<<"g", "o", "t", " ", "5", "0", "3">>), JsStr(<<"x", "4", "2", "9", "0">>), JsStr(<<"4", "2", " ", "9">>),
                  JsNum(429), JsNum(42)}

\* the errors isRetryableError is asked about
ProviderErrors ==
  {Err(st, sc, rs, cd, msg) : st \in StatusValues, sc \in {JsUndef, JsNum(503)},
                              rs \in {JsUndef, JsNum(500), JsNum(401)},
                              cd \in CodeValues, msg \in MessageValues}

\* the errors a backend call of the router's sessions fails with
RouterErrors == {
  Err(JsNum(429), JsUndef, JsUndef, JsUndef, JsStr(<<"T", "o", "o", " ", "M", "a", "n", "y", " ", "R", "e", "q", "u", "e", "s", "t", "s">>)),
  Err(JsUndef, JsUndef, JsUndef, JsStr(ETIMEDOUT), JsUndef),
  Err(JsUndef, JsUndef, JsUndef, JsUndef, JsStr(<<"h", "i", "t", " ", "r", "a", "t", "e", " ", "l", "i", "m", "i", "t">>)),
  Err(JsNum(401), JsUndef, JsUndef, JsUndef, JsStr(<<"b", "a", "d", " ", "k", "e", "y">>)),
  Err(JsUndef, JsUndef, JsUndef, JsStr(EPIPE), JsStr(<<"b", "r", "o", "k", "e", "n", " ", "p", "i", "p", "e">>)),
  Err(JsUndef, JsUndef, JsUndef, JsUndef, JsUndef) }

\* the errors a backend call of the agent's sessions fails with
AgentErrors == {
  Err(JsNum(429), JsUndef, JsUndef, JsUndef, JsStr(<<"T", "o", "o", " ", "M", "a", "n", "y", " ", "R", "e", "q", "u", "e", "s", "t", "s">>)),
  Err(JsNum(401), JsUndef, JsUndef, JsUndef, JsStr(<<"b", "a", "d", " ", "k", "e", "y">>)) }

ProviderKinds == {"gemini", "groq"}
Cascades == UNION {[1..k -> ProviderKinds] : k \in 1..MaxProviders}

\* parseModelList without FALLBACK_MODELS, both keys set
DefaultCascade == <<"gemini", "groq">>

Args(path, content, command) == [path |-> path, content |-> content, command |-> command]

FileA == <<"a", ".", "t", "x", "t">>
OutsideFile == <<".", ".", "/", "o", "u", "t", ".", "t", "x", "t">>

ReadA == [id |-> "call_1", name |-> "read_file", args |-> Args(JsStr(FileA), JsUndef, JsUndef)]
EditA == [id |-> "call_2", name |-> "edit_file", args |-> Args(JsStr(FileA), JsStr(<<"h", "e", "l", "l", "o">>), JsUndef)]
RunLs == [id |-> "call_3", name |-> "run_command", args |-> Args(JsUndef, JsUndef, JsStr(<<"l", "s">>))]
ListOutside == [id |-> "call_1", name |-> "list_files", args |-> Args(JsStr(OutsideFile), JsUndef, JsUndef)]
ListRoot == [id |-> "call_1", name |-> "list_files", args |-> Args(JsStr(<<".">>), JsUndef, JsUndef)]
Nameless == [id |-> "", name |-> "", args |-> Args(JsUndef, JsUndef, JsUndef)]

\* calls a backend asks for in the agent's sessions
ToolCallPool == {ReadA, EditA, RunLs, ListRoot, Nameless}

CallLists == UNION {[1..k -> ToolCallPool] : k \in 1..MaxCalls}

TurnResponse(hasText, text, hasCalls, calls) ==
  [hasText |-> hasText, text |-> text, hasCalls |-> hasCalls, functionCalls |-> calls]

NoCallResponses == {
  TurnResponse(FALSE, "", FALSE, <<>>),
  TurnResponse(TRUE, "done", FALSE, <<>>),
  TurnResponse(TRUE, "", TRUE, <<>>),
  TurnResponse(TRUE, "done", TRUE, <<>>) }

CallResponses == {TurnResponse(ht, IF ht THEN "working" ELSE "", TRUE, cl) :
                    ht \in BOOLEAN, cl \in CallLists}

\* results of the backends in the router's sessions
RouterResponses == {
  TurnResponse(TRUE, "done", FALSE, <<>>),
  TurnResponse(FALSE, "", TRUE, <<ListOutside>>),
  TurnResponse(TRUE, "working", TRUE, <<Nameless>>) }

UserInputs == { <<"e", "x", "i", "t">>, <<"E", "x", "i", "t">>, <<"h", "i">> }

\* what an executed command can print: [stdout, stderr, exitCode]
CommandOutcomes == {
  [stdout |-> <<"a", ".", "t", "x", "t">>, stderr |-> <<>>, exitCode |-> 0],
  [stdout |-> <<>>, stderr |-> <<"n", "o">>, exitCode |-> 2] }

SubDir == <<"s", "u", "b">>
SubFile == <<"s", "u", "b", "/", "f", "i", "l", "e", ".", "t", "x", "t">>

\* the paths under the workspace root the sessions know of
FsPaths == { PathResolve(PROJECT_ROOT, FileA), PathResolve(PROJECT_ROOT, SubDir),
             PathResolve(PROJECT_ROOT, SubFile) }

\* what a path holds: nothing, a file with its text, or a directory
NoFile == [exists |-> FALSE, dir |-> FALSE, content |-> <<>>]
FileOf(text) == [exists |-> TRUE, dir |-> FALSE, content |-> text]
Directory == [exists |-> TRUE, dir |-> TRUE, content |-> <<>>]

\* ------------------------------------------------------------------ state
VARIABLES
  providerConfigs,   \* Router.providerConfigs: the cascade
  currentIndex,      \* Router.currentIndex: the sticky index
  startIndex,        \* sendTurn: startIndex
  i,                 \* sendTurn: loop counter
  lastError,         \* sendTurn: lastError, with the cascade index that raised it
  lastRetryable,     \* what isRetryableError answered for lastError
  full,              \* the history handed to the adapter
  attempts,          \* cascade indexes tried so far by the current sendTurn
  logged,            \* labels the current sendTurn named in its "Trying ..." lines
  answeredBy,        \* cascade index of the provider that answered last, -1 before
  pc,                \* where the session is suspended
  messages,          \* processInput: messages
  response,          \* processInput: response
  callIdx,           \* processInput: position of the for loop in response.functionCalls
  toolResults,       \* processInput: toolResults
  thrown,            \* the error on its way from the Router to processInput's catch
  printed,           \* what processInput printed for the current line
  lines,             \* user lines read so far
  asked,             \* calls the backends asked for while the current line is processed
  autoApprove,       \* SafetyGuard.autoApprove
  confirmFileReads,  \* SafetyGuard.confirmFileReads
  fs,                \* the files under the workspace root
  tool,              \* locals of the tool operation being executed
  performed,         \* what the environment did for the call being executed, in order
  returned,          \* processInput: result, the value execute returned last
  inflight,          \* awaited operations that have not completed yet
  groq,              \* Recovering Adapter: the backend's message and the locals of sendTurn
  contents           \* Structured Adapter: sendTurn's contents

routerVars == <<providerConfigs, currentIndex, startIndex, i, lastError, lastRetryable,
                full, attempts, logged, answeredBy>>
loopVars == <<messages, response, callIdx, toolResults, asked>>
toolVars == <<fs, tool, performed, returned>>
vars == <<providerConfigs, currentIndex, startIndex, i, lastError, lastRetryable, full,
          attempts, logged, answeredBy, pc, messages, response, callIdx, toolResults, thrown,
          printed, lines, asked, autoApprove, confirmFileReads, fs, tool, performed, returned, groq, contents, inflight>>

SYSTEM_PROMPT == "You are a senior software engineer."

NoError == [defined |-> FALSE,
            error |-> Err(JsUndef, JsUndef, JsUndef, JsUndef, JsUndef), from |-> -1]
Raised(error, idx) == [defined |-> TRUE, error |-> error, from |-> idx]

NoTool == [fn |-> "none", filePath |-> <<>>, targetPath |-> <<>>, fileSize |-> 0,
           isLarge |-> FALSE, isNew |-> FALSE, fileContent |-> JsStr(<<>>), command |-> <<>>]

NothingPrinted == [kind |-> "nothing", text |-> ""]

\* execute has not returned anything yet
NoResult == [kind |-> "none"]
NoInflight == [provider |-> 0, tool |-> 0, prompt |-> 0]

\* no call of the Recovering Adapter is under way
NoGroq == [present |-> FALSE, content |-> JsUndef, toolCalls |-> <<>>, parts |-> <<>>,
           repaired |-> FALSE, inferred |-> FALSE, calls |-> <<>>, strippedText |-> <<>>]

Began(what) == [inflight EXCEPT ![what] = @ + 1]
Ended(what) == [inflight EXCEPT ![what] = @ - 1]

\* a session before its first line, for a cascade and a guard of the given sets
InitWith(cascades, approvals, flags) ==
  /\ providerConfigs \in cascades
  /\ currentIndex = 0
  /\ startIndex = 0
  /\ i = 0
  /\ lastError = NoError
  /\ lastRetryable = FALSE
  /\ full = <<>>
  /\ attempts = <<>>
  /\ logged = <<>>
  /\ answeredBy = -1
  /\ pc = "Idle"
  /\ messages = <<>>
  /\ response = TurnResponse(FALSE, "", FALSE, <<>>)
  /\ callIdx = 0
  /\ toolResults = <<>>
  /\ thrown = NoError
  /\ printed = NothingPrinted
  /\ lines = 0
  /\ asked = 0
  /\ autoApprove \in approvals
  /\ confirmFileReads \in flags
  /\ fs = [p \in FsPaths |-> NoFile]
  /\ tool = NoTool
  /\ performed = <<>>
  /\ returned = NoResult
  /\ inflight = NoInflight
  /\ groq = NoGroq
  /\ contents = <<>>

\* ------------------------------------------------------------ router.ts
\* slip: a system turn is looked for at the front of the history only
buildMessagesWithSystemFrontOnly(msgs) ==
  IF msgs # <<>> /\ msgs[1].role = "system" THEN msgs
  ELSE <<[role |-> "system", content |-> SYSTEM_PROMPT]>> \o msgs

buildMessagesWithSystem(msgs) ==
  IF \E k \in 1..Len(msgs) : msgs[k].role = "system" THEN msgs
  ELSE <<[role |-> "system", content |-> SYSTEM_PROMPT]>> \o msgs

\* slip: the loop counter alone, the sticky index is ignored
AttemptIndexFromZero(start, k, n) == k % n

\* const idx = (startIndex + i) % this.providerConfigs.length
AttemptIndex(start, k, n) == (start + k) % n

\* slip: the sticky index is the start index plus the loop counter, not wrapped
StickyAfterSuccessUnwrapped(current, idx) == startIndex + i

\* slip: the sticky index is not moved to the provider that answered
StickyAfterSuccessStale(current, idx) == current

\* this.currentIndex = idx, on success
StickyAfterSuccess(current, idx) == idx

\* slip: only the first error of a call is remembered
LastErrorAfterKeepFirst(previous, raised) == IF previous.defined THEN previous ELSE raised

\* lastError = error
LastErrorAfter(previous, raised) == raised

\* slip: every error moves on to the next provider
ShouldContinueAny(error, n) == n > 1

\* isRetryableError(error) && this.providerConfigs.length > 1
ShouldContinue(error, n) == isRetryableError(error) /\ n > 1

\* the frame of sendTurn is gone once processInput goes on after the call
RouterFrameDropped ==
  /\ startIndex' = 0
  /\ i' = 0
  /\ lastError' = NoError
  /\ lastRetryable' = FALSE
  /\ full' = <<>>
  /\ attempts' = <<>>
  /\ logged' = <<>>
  /\ UNCHANGED <<providerConfigs, currentIndex, answeredBy>>

\* sendMessage / sendToolResults up to the first adapter call of sendTurn
RouterSend(msgs) ==
  /\ full' = buildMessagesWithSystem(msgs)
  /\ startIndex' = currentIndex
  /\ i' = 0
  /\ lastError' = NoError
  /\ lastRetryable' = FALSE
  /\ attempts' = <<AttemptIndex(currentIndex, 0, Len(providerConfigs))>>
  /\ logged' = <<>>
  /\ inflight' = Began("provider")
  /\ pc' = "AwaitingModel"
  /\ UNCHANGED <<providerConfigs, currentIndex, answeredBy, thrown>>

\* the awaited adapter.sendTurn resolves: sendTurn returns its result
AdapterReturns(out) ==
  /\ pc = "AwaitingModel"
  /\ asked + Len(out.functionCalls) <= MaxLineCalls
  /\ LET idx == AttemptIndex(startIndex, i, Len(providerConfigs))
     IN /\ currentIndex' = StickyAfterSuccess(currentIndex, idx)
        /\ answeredBy' = idx
  /\ response' = out
  /\ inflight' = Ended("provider")
  /\ pc' = "LoopCheck"
  /\ UNCHANGED <<providerConfigs, startIndex, i, lastError, lastRetryable, full, attempts, logged>>
  /\ UNCHANGED <<messages, callIdx, toolResults, asked, thrown, printed, lines,
                 autoApprove, confirmFileReads, fs, tool, performed, returned, groq, contents>>

\* the label the catch block of sendTurn prints for a provider
Label(provider) == IF provider = "gemini" THEN "Gemini" ELSE "Groq"

\* nextLabel of sendTurn's catch block: the provider the line announces
nextLabel(idx, configs) == Label(configs[((idx + 1) % Len(configs)) + 1])

\* the awaited adapter.sendTurn rejects: the catch block of sendTurn, and the
\* next adapter call or the throw that follows it; sticky is the sticky index
\* the call leaves behind
AdapterThrowsLeaving(error, sticky) ==
  /\ pc = "AwaitingModel"
  /\ LET n == Len(providerConfigs)
         idx == AttemptIndex(startIndex, i, n)
         raised == LastErrorAfter(lastError, Raised(error, idx))
     IN /\ lastError' = raised
        /\ lastRetryable' = isRetryableError(error)
        /\ IF ShouldContinue(error, n)
           THEN /\ i' = i + 1
                /\ logged' = Append(logged, nextLabel(idx, providerConfigs))
                /\ IF i + 1 < n
                   THEN /\ attempts' = Append(attempts, AttemptIndex(startIndex, i + 1, n))
                        /\ UNCHANGED <<pc, thrown, inflight>>
                   ELSE /\ thrown' = raised
                        /\ pc' = "RouterThrew"
                        /\ inflight' = Ended("provider")
                        /\ UNCHANGED attempts
           ELSE /\ thrown' = Raised(error, idx)
                /\ pc' = "RouterThrew"
                /\ inflight' = Ended("provider")
                /\ UNCHANGED <<i, attempts, logged>>
  /\ currentIndex' = sticky
  /\ UNCHANGED <<providerConfigs, startIndex, full, answeredBy>>
  /\ UNCHANGED <<messages, response, callIdx, toolResults, asked, printed, lines,
                 autoApprove, confirmFileReads, fs, tool, performed, returned, groq, contents>>

\* slip: a failure moves the sticky index on to the next provider
AdapterThrowsAdvancing(error) ==
  AdapterThrowsLeaving(error, AttemptIndex(startIndex, i + 1, Len(providerConfigs)))

AdapterThrows(error) == AdapterThrowsLeaving(error, currentIndex)

\* ------------------------------------------------------------- agent.ts
UpperChars == <<"A", "B", "C", "D", "E", "F", "G", "H", "I", "J", "K", "L", "M", "N", "O", "P", "Q", "R", "S", "T", "U", "V", "W", "X", "Y", "Z">>
LowerChars == <<"a", "b", "c", "d", "e", "f", "g", "h", "i", "j", "k", "l", "m", "n", "o", "p", "q", "r", "s", "t", "u", "v", "w", "x", "y", "z">>

ToLowerChar(c) ==
  IF \E k \in 1..Len(UpperChars) : UpperChars[k] = c
  THEN LowerChars[CHOOSE k \in 1..Len(UpperChars) : UpperChars[k] = c]
  ELSE c

\* input.toLowerCase()
ToLowerCase(chars) == [k \in 1..Len(chars) |-> ToLowerChar(chars[k])]

\* slip: the answer printed for the previous line stays in the history
UserLineKeepingAnswer(input) ==
  /\ pc = "Idle"
  /\ lines < MaxLines
  /\ lines' = lines + 1
  /\ IF ToLowerCase(input) = <<"e", "x", "i", "t">>
     THEN /\ pc' = "Exited"
          /\ UNCHANGED <<routerVars, loopVars, thrown, printed, inflight>>
     ELSE /\ messages' = (IF printed.kind = "final"
                          THEN <<[role |-> "assistant", content |-> printed.text,
                                  functionCalls |-> <<>>]>>
                          ELSE <<>>) \o <<[role |-> "user", content |-> Str(input)]>>
          /\ asked' = 0
          /\ printed' = NothingPrinted
          /\ RouterSend(messages')
          /\ UNCHANGED <<response, callIdx, toolResults>>
  /\ UNCHANGED <<autoApprove, confirmFileReads, fs, tool, performed, returned, groq, contents>>

\* start: one line is read; 'exit' ends the session, any other line enters
\* processInput, which runs up to the awaited router.sendMessage
UserLine(input) ==
  /\ pc = "Idle"
  /\ lines < MaxLines
  /\ lines' = lines + 1
  /\ IF ToLowerCase(input) = <<"e", "x", "i", "t">>
     THEN /\ pc' = "Exited"
          /\ UNCHANGED <<routerVars, loopVars, thrown, printed, inflight>>
     ELSE /\ messages' = <<[role |-> "user", content |-> Str(input)]>>
          /\ asked' = 0
          /\ printed' = NothingPrinted
          /\ RouterSend(messages')
          /\ UNCHANGED <<response, callIdx, toolResults>>
  /\ UNCHANGED <<autoApprove, confirmFileReads, fs, tool, performed, returned, groq, contents>>

AssistantMsg(resp) ==
  [role |-> "assistant",
   content |-> IF resp.hasText THEN resp.text ELSE "",
   functionCalls |-> resp.functionCalls]

\* slip: an empty list of calls counts as calls
HasCallsAnyList(resp) == resp.hasCalls

HasCalls(resp) == resp.hasCalls /\ Len(resp.functionCalls) > 0

\* slip: the loop is capped at one iteration, a second result with calls
\* ends the line
LoopCheckCapped ==
  /\ pc = "LoopCheck"
  /\ IF HasCalls(response) /\ asked = 0
     THEN /\ messages' = Append(messages, AssistantMsg(response))
          /\ toolResults' = <<>>
          /\ callIdx' = 1
          /\ asked' = asked + Len(response.functionCalls)
          /\ pc' = "ForCall"
          /\ UNCHANGED printed
     ELSE /\ printed' = IF response.hasText /\ response.text # ""
                        THEN [kind |-> "final", text |-> response.text]
                        ELSE printed
          /\ pc' = "Done"
          /\ UNCHANGED <<messages, toolResults, callIdx, asked>>
  /\ RouterFrameDropped
  /\ UNCHANGED <<response, thrown, lines, autoApprove, confirmFileReads, fs, tool, performed, returned, groq, contents, inflight>>

\* the while condition, then either the head of the loop body (the assistant
\* turn is appended, the for loop starts) or the code after the loop
LoopCheck ==
  /\ pc = "LoopCheck"
  /\ IF HasCalls(response)
     THEN /\ messages' = Append(messages, AssistantMsg(response))
          /\ toolResults' = <<>>
          /\ callIdx' = 1
          /\ asked' = asked + Len(response.functionCalls)
          /\ pc' = "ForCall"
          /\ UNCHANGED printed
     ELSE /\ printed' = IF response.hasText /\ response.text # ""
                        THEN [kind |-> "final", text |-> response.text]
                        ELSE printed
          /\ pc' = "Done"
          /\ UNCHANGED <<messages, toolResults, callIdx, asked>>
  /\ RouterFrameDropped
  /\ UNCHANGED <<response, thrown, lines, autoApprove, confirmFileReads, fs, tool, performed, returned, groq, contents, inflight>>

\* slip: an error of the Router ends the session
CatchErrorEndsSession ==
  /\ pc = "RouterThrew"
  /\ printed' = [kind |-> "error", text |-> Str(ErrorMessage(thrown.error))]
  /\ pc' = "Exited"
  /\ RouterFrameDropped
  /\ UNCHANGED <<loopVars, thrown, lines, autoApprove, confirmFileReads, fs, tool, performed, returned, groq, contents, inflight>>

\* catch (error) of processInput
CatchError ==
  /\ pc = "RouterThrew"
  /\ printed' = [kind |-> "error", text |-> Str(ErrorMessage(thrown.error))]
  /\ pc' = "Done"
  /\ RouterFrameDropped
  /\ UNCHANGED <<loopVars, thrown, lines, autoApprove, confirmFileReads, fs, tool, performed, returned, groq, contents, inflight>>

\* processInput returns to the loop of start, its locals are gone
ProcessInputReturns ==
  /\ pc = "Done"
  /\ pc' = "Idle"
  /\ messages' = <<>>
  /\ response' = TurnResponse(FALSE, "", FALSE, <<>>)
  /\ callIdx' = 0
  /\ toolResults' = <<>>
  /\ asked' = 0
  /\ thrown' = NoError
  /\ performed' = <<>>
  /\ returned' = NoResult
  /\ UNCHANGED <<routerVars, printed, lines, autoApprove, confirmFileReads, fs, tool, groq, contents, inflight>>

CurrentCall == response.functionCalls[callIdx]

\* slip: the tool turn is keyed by the name of the call
ToolMsgKeyedByName(call, result) ==
  [role |-> "tool", toolCallId |-> call.name, name |-> call.name,
   content |-> JSONStringify(result)]

ToolMsg(call, result) ==
  [role |-> "tool", toolCallId |-> call.id, name |-> call.name,
   content |-> JSONStringify(result)]

\* if (!call.name) continue
ForSkip ==
  /\ pc = "ForCall"
  /\ callIdx <= Len(response.functionCalls)
  /\ CurrentCall.name = ""
  /\ callIdx' = callIdx + 1
  /\ UNCHANGED <<routerVars, messages, response, toolResults, asked, pc, thrown, printed,
                 lines, autoApprove, confirmFileReads, fs, tool, performed, returned, inflight, groq, contents>>

\* the for loop is over: the tool turns are appended and the history is
\* resubmitted with router.sendToolResults
ForDone ==
  /\ pc = "ForCall"
  /\ callIdx > Len(response.functionCalls)
  /\ messages' = messages \o toolResults
  /\ RouterSend(messages')
  /\ UNCHANGED <<response, callIdx, toolResults, asked, printed, lines,
                 autoApprove, confirmFileReads, fs, tool, performed, returned, groq, contents>>

\* the awaited operation `done` ("none": no operation) has completed and the
\* operation `begun` is awaited next
Moved(done, begun) ==
  LET rest == IF done = "none" THEN inflight ELSE [inflight EXCEPT ![done] = @ - 1]
  IN IF begun = "none" THEN rest ELSE [rest EXCEPT ![begun] = @ + 1]

AwaitKind(op) == IF op = "confirm" THEN "prompt" ELSE "tool"

\* what the environment has done for the call once the awaited `done` is over:
\* the operation the call was suspended at, or the answer to the prompt
Logged(done, answer) ==
  CASE done = "none" -> <<>>
    [] done = "prompt" -> Append(performed, answer)
    [] OTHER -> Append(performed, pc)

\* execute returned: toolResults.push(...) and the next iteration
ReturnAfter(done, log, result) ==
  /\ returned' = result
  /\ performed' = log
  /\ toolResults' = Append(toolResults, ToolMsg(CurrentCall, result))
  /\ callIdx' = callIdx + 1
  /\ tool' = NoTool
  /\ pc' = "ForCall"
  /\ inflight' = Moved(done, "none")

Return(done, result) == ReturnAfter(done, Logged(done, "no"), result)

\* the tool function awaits the operation op
SuspendAfter(done, log, op, locals) ==
  /\ pc' = op
  /\ tool' = locals
  /\ inflight' = Moved(done, AwaitKind(op))
  /\ performed' = log
  /\ UNCHANGED <<toolResults, callIdx, returned>>

\* slip: the operation is started and the for loop goes on without its result
SuspendUnawaited(done, op, locals) ==
  /\ pc' = "ForCall"
  /\ callIdx' = callIdx + 1
  /\ tool' = NoTool
  /\ inflight' = Moved(done, AwaitKind(op))
  /\ performed' = Logged(done, "yes")
  /\ UNCHANGED <<toolResults, returned>>

Suspend(done, op, locals) == SuspendAfter(done, Logged(done, "yes"), op, locals)

\* ------------------------------------------------------------ safety.ts
\* slip: auto-approve does not switch the confirmation of reads off
shouldConfirmFileReadsAlways(flag) == flag

\* shouldConfirmFileReads, for the guard's confirmFileReads flag
shouldConfirmFileReads(flag) == ~autoApprove /\ flag

\* slip: the guard approves every action without a prompt
confirmActionUnasked(done, op, locals) ==
  SuspendAfter(done, Append(Logged(done, "yes"), "auto"), op, locals)

\* confirmAction: true at once under auto-approve ("auto": the gate was passed
\* without a prompt), else the prompt is awaited and `op` follows a yes
confirmAction(done, op, locals) ==
  IF autoApprove THEN SuspendAfter(done, Append(Logged(done, "yes"), "auto"), op, locals)
  ELSE Suspend(done, "confirm", locals)

\* -------------------------------------------------------------- tools.ts
Falsy(v) == v.t = "undefined" \/ (v.t = "string" /\ v.s = <<>>) \/ (v.t = "number" /\ v.n = 0)

FileAt(p) == IF p \in DOMAIN fs THEN fs[p] ELSE NoFile
IsDirectory(p) == p = PROJECT_ROOT \/ FileAt(p).dir
IsFile(p) == FileAt(p).exists /\ ~FileAt(p).dir

NoiseDirs == { <<"n", "o", "d", "e", "_", "m", "o", "d", "u", "l", "e", "s">>, <<".", "g", "i", "t">> }

RECURSIVE SetToSeq(_)
SetToSeq(S) == IF S = {} THEN <<>>
               ELSE LET x == CHOOSE y \in S : TRUE IN <<x>> \o SetToSeq(S \ {x})

\* fs.readdir of a directory, filtered and mapped as listFiles does
DirEntries(dir) ==
  LET names == {PathBasename(p) : p \in {q \in DOMAIN fs : fs[q].exists /\ PathDirname(q) = dir}}
      filtered == {nm \in names : nm \notin NoiseDirs}
  IN SetToSeq({[name |-> nm,
                type |-> IF IsDirectory(dir \o <<Slash>> \o nm) THEN "directory" ELSE "file"] :
                 nm \in filtered})

\* slip: the Error of resolveProjectPath leaves execute and ends the line
listFilesUncaught(dirPath) ==
  LET r == resolveProjectPath(IF Falsy(dirPath) THEN JsStr(<<".">>) ELSE dirPath)
  IN IF ~r.ok
     THEN /\ pc' = "Done"
          /\ tool' = NoTool
          /\ performed' = <<>>
          /\ UNCHANGED <<toolResults, callIdx, returned, inflight>>
     ELSE Suspend("none", "fs.readdir", [NoTool EXCEPT !.fn = "listFiles", !.targetPath = r.path])

listFiles(dirPath) ==
  LET r == resolveProjectPath(IF Falsy(dirPath) THEN JsStr(<<".">>) ELSE dirPath)
  IN IF ~r.ok THEN Return("none", ErrorResult(r.message))
     ELSE Suspend("none", "fs.readdir", [NoTool EXCEPT !.fn = "listFiles", !.targetPath = r.path])

readFile(filePath) ==
  IF Falsy(filePath) THEN Return("none", ErrorResult("Path is required"))
  ELSE LET r == resolveProjectPath(filePath)
       IN IF ~r.ok THEN Return("none", ErrorResult(r.message))
          ELSE Suspend("none", "fs.stat",
                       [NoTool EXCEPT !.fn = "readFile", !.filePath = filePath.s,
                                      !.targetPath = r.path])

editFile(filePath, content) ==
  IF Falsy(filePath) THEN Return("none", ErrorResult("Path is required"))
  ELSE LET r == resolveProjectPath(filePath)
       IN IF ~r.ok THEN Return("none", ErrorResult(r.message))
          ELSE Suspend("none", "fs.access",
                       [NoTool EXCEPT !.fn = "editFile", !.filePath = filePath.s,
                                      !.targetPath = r.path,
                                      !.fileContent = IF Falsy(content) THEN JsStr(<<>>) ELSE content])

\* a command that is no string has no includes: the TypeError of
\* validateCommand ends in the catch of execute
runCommand(command) ==
  IF Falsy(command) THEN Return("none", ErrorResult("Command is required"))
  ELSE IF command.t # "string"
  THEN Return("none", ErrorResult("command.includes is not a function"))
  ELSE IF ~validateCommand(command.s)
       THEN Return("none", ErrorResult("Command blocked by safety filter."))
       ELSE confirmAction("none", "execa", [NoTool EXCEPT !.fn = "runCommand", !.command = command.s])

\* the for loop reaches a named call: execute dispatches on the name and the
\* tool function runs up to its first awaited operation, or returns
ToolStart ==
  /\ pc = "ForCall"
  /\ callIdx <= Len(response.functionCalls)
  /\ CurrentCall.name # ""
  /\ LET name == CurrentCall.name
         safeArgs == CurrentCall.args
     IN CASE name = "list_files" -> listFiles(safeArgs.path)
          [] name = "read_file" -> readFile(safeArgs.path)
          [] name = "edit_file" -> editFile(safeArgs.path, safeArgs.content)
          [] name = "run_command" -> runCommand(safeArgs.command)
          [] OTHER -> Return("none", ErrorResult("Unknown tool: " \o name))
  /\ UNCHANGED <<routerVars, messages, response, asked, thrown, printed, lines,
                 autoApprove, confirmFileReads, fs, groq, contents>>

toolFrame == <<routerVars, messages, response, asked, thrown, printed, lines, autoApprove, confirmFileReads,
              groq, contents>>

FsReaddirDone ==
  /\ pc = "fs.readdir"
  /\ IF IsDirectory(tool.targetPath)
     THEN Return("tool", [kind |-> "entries", entries |-> DirEntries(tool.targetPath)])
     ELSE Return("tool", ErrorResult("Failed to list directory: "
                           \o (IF FileAt(tool.targetPath).exists
                               THEN "ENOTDIR: not a directory"
                               ELSE "ENOENT: no such file or directory")))
  /\ UNCHANGED <<toolFrame, fs>>

FsStatDone ==
  /\ pc = "fs.stat"
  /\ IF ~IsDirectory(tool.targetPath) /\ ~FileAt(tool.targetPath).exists
     THEN Return("tool", ErrorResult("Failed to read file: ENOENT: no such file or directory"))
     ELSE LET fileSize == ByteLength(FileAt(tool.targetPath).content)
              isLarge == fileSize > ReadThreshold
              locals == [tool EXCEPT !.fileSize = fileSize, !.isLarge = isLarge]
          IN IF shouldConfirmFileReads(confirmFileReads) \/ isLarge
             THEN confirmAction("tool", "fs.readFile", locals)
             ELSE Suspend("tool", "fs.readFile", locals)
  /\ UNCHANGED <<toolFrame, fs>>

FsReadFileDone ==
  /\ pc = "fs.readFile"
  /\ IF IsDirectory(tool.targetPath)
     THEN Return("tool", ErrorResult("Failed to read file: EISDIR: illegal operation on a directory"))
     ELSE LET fileContent == FileAt(tool.targetPath).content
              preview == SliceTo(fileContent, maxChars)
          IN IF ~tool.isLarge
             THEN Return("tool", [kind |-> "read", content |-> fileContent,
                                  truncated |-> FALSE, size |-> tool.fileSize])
             ELSE Return("tool", [kind |-> "preview", content |-> preview, truncated |-> TRUE,
                                  size |-> tool.fileSize, returnedSize |-> ByteLength(preview),
                                  note |-> "File is large; only a leading portion was returned. Summarize this content and request more specific sections if needed."])
  /\ UNCHANGED <<toolFrame, fs>>

\* fileExists resolves; a content that is no string has no substring: the
\* TypeError of the preview ends in the catch of execute
FsAccessDone ==
  /\ pc = "fs.access"
  /\ IF tool.fileContent.t # "string"
     THEN Return("tool", ErrorResult("fileContent.substring is not a function"))
     ELSE confirmAction("tool", "fs.mkdir",
                        [tool EXCEPT !.isNew = ~(IsDirectory(tool.targetPath) \/ FileAt(tool.targetPath).exists)])
  /\ UNCHANGED <<toolFrame, fs>>

\* the operation a tool function goes on with after a yes
AfterConfirm(fn) ==
  CASE fn = "readFile" -> "fs.readFile"
    [] fn = "editFile" -> "fs.mkdir"
    [] fn = "runCommand" -> "execa"

\* slip: a decline is returned as an error
ConfirmDeclineAsError(confirmed) ==
  /\ pc = "confirm"
  /\ IF ~confirmed THEN Return("prompt", ErrorResult("cancelled_by_user"))
     ELSE Suspend("prompt", AfterConfirm(tool.fn), tool)
  /\ UNCHANGED <<toolFrame, fs>>

\* the user answers the prompt of confirmAction
Confirm(confirmed) ==
  /\ pc = "confirm"
  /\ IF ~confirmed THEN Return("prompt", CancelledResult)
     ELSE Suspend("prompt", AfterConfirm(tool.fn), tool)
  /\ UNCHANGED <<toolFrame, fs>>

\* the directories between the workspace root and the path p
DirsAbove(p) ==
  LET segs == NormalizeSegments(<<>>, SplitPath(p))
      root == Len(NormalizeSegments(<<>>, SplitPath(PROJECT_ROOT)))
  IN {JoinSegments(SubSeq(segs, 1, k)) : k \in (root + 1)..(Len(segs) - 1)}

\* fs.mkdir(path.dirname(targetPath), { recursive: true })
FsMkdirDone ==
  /\ pc = "fs.mkdir"
  /\ IF \E q \in DirsAbove(tool.targetPath) : IsFile(q)
     THEN /\ UNCHANGED fs
          /\ Return("tool", ErrorResult("Failed to write file: EEXIST: file already exists"))
     ELSE /\ fs' = [q \in DOMAIN fs \cup DirsAbove(tool.targetPath) |->
                     IF q \in DirsAbove(tool.targetPath) THEN Directory ELSE fs[q]]
          /\ Suspend("tool", "fs.writeFile", tool)
  /\ UNCHANGED toolFrame

\* slip: success is returned while the write is still under way
FsWriteFileDonePending ==
  /\ pc = "fs.writeFile"
  /\ IF ~IsDirectory(tool.targetPath)
     THEN /\ UNCHANGED fs
          /\ Return("tool", [kind |-> "written",
                             message |-> "File " \o Str(tool.filePath) \o " written successfully."])
     ELSE /\ UNCHANGED fs
          /\ Return("tool", ErrorResult("Failed to write file: EISDIR: illegal operation on a directory"))
  /\ UNCHANGED toolFrame

\* slip: the content is appended to what the file held
FsWriteFileDoneAppending ==
  /\ pc = "fs.writeFile"
  /\ IF ~IsDirectory(tool.targetPath)
     THEN /\ fs' = [q \in DOMAIN fs \cup {tool.targetPath} |->
                     IF q = tool.targetPath
                     THEN FileOf(FileAt(q).content \o Runs(tool.fileContent.s))
                     ELSE fs[q]]
          /\ Return("tool", [kind |-> "written",
                             message |-> "File " \o Str(tool.filePath) \o " written successfully."])
     ELSE /\ UNCHANGED fs
          /\ Return("tool", ErrorResult("Failed to write file: EISDIR: illegal operation on a directory"))
  /\ UNCHANGED toolFrame

\* fs.writeFile(targetPath, fileContent, 'utf-8')
FsWriteFileDone ==
  /\ pc = "fs.writeFile"
  /\ IF ~IsDirectory(tool.targetPath)
     THEN /\ fs' = [q \in DOMAIN fs \cup {tool.targetPath} |->
                     IF q = tool.targetPath THEN FileOf(Runs(tool.fileContent.s)) ELSE fs[q]]
          /\ Return("tool", [kind |-> "written",
                             message |-> "File " \o Str(tool.filePath) \o " written successfully."])
     ELSE /\ UNCHANGED fs
          /\ Return("tool", ErrorResult("Failed to write file: EISDIR: illegal operation on a directory"))
  /\ UNCHANGED toolFrame

\* the command ran and exited with the code
Exited(exitCode) == "execa exit " \o Str(Decimal(exitCode))

\* execa resolves: with reject: false it does so for every exit code
ExecaDone(outcome) ==
  /\ pc = "execa"
  /\ ReturnAfter("tool", Append(performed, Exited(outcome.exitCode)),
                 [kind |-> "command", stdout |-> outcome.stdout, stderr |-> outcome.stderr,
                  exitCode |-> 0])
  /\ UNCHANGED <<toolFrame, fs>>

\* ------------------------------------------------------- adapters/groq.ts
LowerSet == {LowerChars[k] : k \in 1..Len(LowerChars)}
UpperSet == {UpperChars[k] : k \in 1..Len(UpperChars)}
DigitSet == {DigitChars[k] : k \in 1..Len(DigitChars)}

\* text[k], text.slice(a, b) and text.indexOf(needle, from): positions count from 0
At(text, k) == text[k + 1]
Slice(text, a, b) == SubSeq(text, a + 1, b)

IndexOf(text, needle, from) ==
  LET First(hits) == IF hits = {} THEN -1 ELSE CHOOSE k \in hits : \A j \in hits : k <= j
  IN First({k \in from..(Len(text) - Len(needle)) :
              SubSeq(text, k + 1, k + Len(needle)) = needle})

\* /\s/
IsSpace(c) == c \in {" ", "\n", "\t", "\r"}

RECURSIVE TrimStart(_)
TrimStart(chars) ==
  IF chars # <<>> /\ IsSpace(chars[1]) THEN TrimStart(Tail(chars)) ELSE chars

RECURSIVE TrimEnd(_)
TrimEnd(chars) ==
  IF chars # <<>> /\ IsSpace(chars[Len(chars)])
  THEN TrimEnd(SubSeq(chars, 1, Len(chars) - 1)) ELSE chars

\* s.trim()
Trim(chars) == TrimEnd(TrimStart(chars))

\* a parsed JSON object: its members in the order of their first appearance
JsObj(members) == [t |-> "object", members |-> members]
EmptyObject == JsObj(<<>>)
Member(key, value) == [key |-> key, value |-> value]

PutMember(members, key, value) ==
  IF \E k \in 1..Len(members) : members[k].key = key
  THEN [k \in 1..Len(members) |->
          IF members[k].key = key THEN Member(key, value) ELSE members[k]]
  ELSE Append(members, Member(key, value))

\* JSON.parse for the JSON of the payloads: objects, strings without escape
\* sequences, non-negative integers; every other text is a SyntaxError
ParseFailed == [ok |-> FALSE, value |-> EmptyObject, pos |-> 0]
Parsed(value, pos) == [ok |-> TRUE, value |-> value, pos |-> pos]

\* while (i < text.length && /\s/.test(text[i])) i++
SkipSpace(text, k) ==
  IF ~(k < Len(text)) THEN k
  ELSE CHOOSE e \in k..Len(text) :
         /\ \A m \in k..(e - 1) : IsSpace(At(text, m))
         /\ e = Len(text) \/ ~IsSpace(At(text, e))

ParseString(text, p) ==
  LET Chars(chars, q) ==
        IF \E k \in 1..Len(chars) : chars[k] \in {"\\", "\n", "\t", "\r"}
        THEN ParseFailed
        ELSE Parsed(JsStr(chars), q + 1)
      Closed(q) == IF q = -1 THEN ParseFailed ELSE Chars(Slice(text, p + 1, q), q)
  IN IF ~(p < Len(text) /\ At(text, p) = "\"") THEN ParseFailed
     ELSE Closed(IndexOf(text, <<"\"">>, p + 1))

DigitsEnd(text, k) ==
  IF ~(k < Len(text)) THEN k
  ELSE CHOOSE e \in k..Len(text) :
         /\ \A m \in k..(e - 1) : At(text, m) \in DigitSet
         /\ e = Len(text) \/ At(text, e) \notin DigitSet

DigitValue(c) == CHOOSE d \in 0..9 : DigitChars[d + 1] = c

RECURSIVE NumberValue(_)
NumberValue(digits) ==
  IF digits = <<>> THEN 0
  ELSE 10 * NumberValue(SubSeq(digits, 1, Len(digits) - 1)) + DigitValue(digits[Len(digits)])

ParseNumber(text, p) ==
  LET Digits(q) ==
        IF q = p \/ (q > p + 1 /\ At(text, p) = "0") THEN ParseFailed
        ELSE Parsed(JsNum(NumberValue(Slice(text, p, q))), q)
  IN Digits(DigitsEnd(text, p))

RECURSIVE ParseValue(_, _)
RECURSIVE ParseMembers(_, _, _)

\* the members of an object from the key at p on, up to the closing brace
ParseMembers(text, p, members) ==
  LET AfterValue(after, now) ==
        IF ~(after < Len(text)) THEN ParseFailed
        ELSE IF At(text, after) = "}" THEN Parsed(JsObj(now), after + 1)
        ELSE IF At(text, after) = ","
             THEN ParseMembers(text, SkipSpace(text, after + 1), now)
        ELSE ParseFailed
      WithValue(key, val) ==
        IF ~val.ok THEN ParseFailed
        ELSE AfterValue(SkipSpace(text, val.pos), PutMember(members, key.value.s, val.value))
      AfterKey(key, colon) ==
        IF ~(colon < Len(text) /\ At(text, colon) = ":") THEN ParseFailed
        ELSE WithValue(key, ParseValue(text, colon + 1))
      WithKey(key) == IF ~key.ok THEN ParseFailed ELSE AfterKey(key, SkipSpace(text, key.pos))
  IN WithKey(ParseString(text, p))

ParseValue(text, p0) ==
  LET Opened(q) ==
        IF q < Len(text) /\ At(text, q) = "}" THEN Parsed(EmptyObject, q + 1)
        ELSE ParseMembers(text, q, <<>>)
      From(p) ==
        IF ~(p < Len(text)) THEN ParseFailed
        ELSE IF At(text, p) = "{" THEN Opened(SkipSpace(text, p + 1))
        ELSE IF At(text, p) = "\"" THEN ParseString(text, p)
        ELSE ParseNumber(text, p)
  IN From(SkipSpace(text, p0))

JSONParse(text) ==
  LET Whole(r) == IF r.ok /\ SkipSpace(text, r.pos) = Len(text) THEN r ELSE ParseFailed
  IN Whole(ParseValue(text, 0))

\* slip: a payload that does not parse is kept as it is
parseArgsKeepingText(argsStr) ==
  LET Checked(o) == IF o.ok /\ o.value.t = "object" THEN o.value ELSE JsStr(argsStr)
  IN Checked(JSONParse(argsStr))

parseArgs(argsStr) ==
  LET Checked(o) == IF o.ok /\ o.value.t = "object" THEN o.value ELSE EmptyObject
  IN Checked(JSONParse(argsStr))

PREFIX == <<"<", "f", "u", "n", "c", "t", "i", "o", "n", "=">>

\* first !== '_' && (first < 'a' || first > 'z') && (first < 'A' || first > 'Z'), negated
IsIdentStart(c) == c = "_" \/ c \in LowerSet \/ c \in UpperSet
IsIdentChar(c) == c = "_" \/ c \in LowerSet \/ c \in UpperSet \/ c \in DigitSet

\* the while loop over the characters of the identifier
NameEnd(text, k) ==
  IF ~(k < Len(text)) THEN k
  ELSE CHOOSE e \in k..Len(text) :
         /\ \A m \in k..(e - 1) : IsIdentChar(At(text, m))
         /\ e = Len(text) \/ ~IsIdentChar(At(text, e))

\* slip: the scan leaves out the braces inside string literals
BraceEndOutsideStrings(text, j, depth) ==
  LET Bare(k) == Cardinality({m \in j..k : At(text, m) = "\""}) % 2 = 0
      Opened(a, b) == Cardinality({k \in a..b : At(text, k) = "{" /\ Bare(k)})
      Shut(a, b) == Cardinality({k \in a..b : At(text, k) = "}" /\ Bare(k)})
      First(hits) == IF hits = {} THEN Len(text) ELSE CHOOSE k \in hits : \A m \in hits : k <= m
  IN IF ~(j < Len(text)) THEN j
     ELSE First({k \in j..(Len(text) - 1) :
                   At(text, k) = "}" /\ Bare(k) /\ depth + Opened(j, k) - Shut(j, k) = 0})

\* slip: the scan ends at the first closing brace
BraceEndFirstClose(text, j, depth) ==
  IF IndexOf(text, <<"}">>, j) = -1 THEN Len(text) ELSE IndexOf(text, <<"}">>, j)

\* the brace scan from j on with the depth so far: the first closing brace
\* at which the depth is back at 0, text.length if there is none
BraceEnd(text, j, depth) ==
  LET Opened(a, b) == Cardinality({k \in a..b : At(text, k) = "{"})
      Shut(a, b) == Cardinality({k \in a..b : At(text, k) = "}"})
      First(hits) == IF hits = {} THEN Len(text) ELSE CHOOSE k \in hits : \A m \in hits : k <= m
  IN IF ~(j < Len(text)) THEN j
     ELSE First({k \in j..(Len(text) - 1) :
                   At(text, k) = "}" /\ depth + Opened(j, k) - Shut(j, k) = 0})

\* slip: every call gets the id of the first
RepairCallFixedId(k, name, args) ==
  [id |-> "groq-repair-0", name |-> Str(name), args |-> args]

RepairCall(k, name, args) ==
  [id |-> "groq-repair-" \o Str(Decimal(k)), name |-> Str(name), args |-> args]

\* the while loop of repairMalformedToolCalls from position k on: the spans
\* found, each with the name and the payload of the call that is pushed with it
RECURSIVE RepairScan(_, _, _)
RepairScan(text, k, spans) ==
  LET Push(idx, name, jsonStr, end) ==
        RepairScan(text, end,
                   Append(spans, [start |-> idx, end |-> end, name |-> name, jsonStr |-> jsonStr]))
      AfterParen(idx, name, jsonStr, afterParen) ==
        Push(idx, name, jsonStr,
             IF afterParen < Len(text) /\ At(text, afterParen) = ">"
             THEN afterParen + 1 ELSE afterParen)
      AfterJson(idx, name, jsonStr, afterJson) ==
        AfterParen(idx, name, jsonStr,
                   IF afterJson < Len(text) /\ At(text, afterJson) = ")"
                   THEN SkipSpace(text, afterJson + 1) ELSE afterJson)
      Braces(idx, name, braceStart, j) ==
        IF j >= Len(text) THEN RepairScan(text, braceStart, spans)
        ELSE AfterJson(idx, name, Slice(text, braceStart, j + 1), SkipSpace(text, j + 1))
      AtBrace(idx, name, braceStart) ==
        IF braceStart >= Len(text) \/ At(text, braceStart) # "{"
        THEN RepairScan(text, braceStart, spans)
        ELSE Braces(idx, name, braceStart, BraceEnd(text, braceStart, 0))
      AfterName(idx, name, afterName) ==
        IF afterName >= Len(text) THEN RepairScan(text, afterName, spans)
        ELSE AtBrace(idx, name,
                     IF At(text, afterName) = "(" THEN SkipSpace(text, afterName + 1)
                     ELSE afterName)
      Named(idx, nameStart, nameEnd) ==
        AfterName(idx, Slice(text, nameStart, nameEnd), SkipSpace(text, nameEnd))
      Marker(idx, nameStart) ==
        IF idx = -1 THEN spans
        ELSE IF nameStart >= Len(text) THEN spans
        ELSE IF ~IsIdentStart(At(text, nameStart)) THEN spans
        ELSE Named(idx, nameStart, NameEnd(text, nameStart + 1))
      Found(idx) == Marker(idx, idx + Len(PREFIX))
  IN IF ~(k < Len(text)) THEN spans ELSE Found(IndexOf(text, PREFIX, k))

\* the loop that builds strippedText
RECURSIVE StripSpans(_, _, _, _)
StripSpans(text, spans, pos, strippedText) ==
  IF spans = <<>>
  THEN strippedText \o (IF pos < Len(text) THEN Slice(text, pos, Len(text)) ELSE <<>>)
  ELSE StripSpans(text, Tail(spans), spans[1].end,
                  strippedText
                    \o (IF spans[1].start > pos THEN Slice(text, pos, spans[1].start) ELSE <<>>)
                    \o <<" ">>)

repairMalformedToolCalls(text) ==
  LET Built(spans) ==
        [calls |-> [n \in 1..Len(spans) |->
                      RepairCall(n - 1, spans[n].name, parseArgs(spans[n].jsonStr))],
         strippedText |-> IF spans = <<>> THEN text
                          ELSE Trim(StripSpans(text, spans, 0, <<>>))]
  IN Built(RepairScan(text, 0, <<>>))

\* ---------------------------------------------- regular expressions
\* the regular expressions of the adapter as trees; Ends lists the positions
\* where a match that starts at p can end, in the order in which backtracking
\* tries them; ci is the i flag
Lit(chars) == [k |-> "lit", chars |-> chars]
Cls(set) == [k |-> "class", set |-> set]
Dot == [k |-> "dot"]
Cat(parts) == [k |-> "cat", parts |-> parts]
Alt(parts) == [k |-> "alt", parts |-> parts]
Star(inner) == [k |-> "star", inner |-> inner]
Plus(inner) == Cat(<<inner, Star(inner)>>)
Opt(inner) == Alt(<<inner, Cat(<<>>)>>)

SameChars(a, b, ci) == IF ci THEN ToLowerCase(a) = ToLowerCase(b) ELSE a = b

RECURSIVE Ends(_, _, _, _)
RECURSIVE EndsFromAll(_, _, _, _)
RECURSIVE EndsOfAlt(_, _, _, _)
RECURSIVE EndsOfStar(_, _, _, _, _)

\* the ends of re from each of the starts, in their order
EndsFromAll(re, text, starts, ci) ==
  IF starts = <<>> THEN <<>>
  ELSE IF Len(starts) = 1 THEN Ends(re, text, starts[1], ci)
  ELSE EndsFromAll(re, text, SubSeq(starts, 1, Len(starts) \div 2), ci)
         \o EndsFromAll(re, text, SubSeq(starts, Len(starts) \div 2 + 1, Len(starts)), ci)

EndsOfAlt(parts, text, p, ci) ==
  IF parts = <<>> THEN <<>>
  ELSE Ends(parts[1], text, p, ci) \o EndsOfAlt(Tail(parts), text, p, ci)

\* greedy: one more round of inner from each of its ends that moved, then none
EndsOfStar(re, text, firsts, p, ci) ==
  IF firsts = <<>> THEN <<p>>
  ELSE (IF firsts[1] > p THEN Ends(re, text, firsts[1], ci) ELSE <<>>)
       \o EndsOfStar(re, text, Tail(firsts), p, ci)

Ends(re, text, p, ci) ==
  CASE re.k = "lit" ->
         IF p + Len(re.chars) <= Len(text)
            /\ SameChars(Slice(text, p, p + Len(re.chars)), re.chars, ci)
         THEN <<p + Len(re.chars)>> ELSE <<>>
    [] re.k = "class" -> IF p < Len(text) /\ At(text, p) \in re.set THEN <<p + 1>> ELSE <<>>
    [] re.k = "dot" -> IF p < Len(text) /\ At(text, p) \notin {"\n", "\r"} THEN <<p + 1>> ELSE <<>>
    [] re.k = "cat" ->
         IF re.parts = <<>> THEN <<p>>
         ELSE EndsFromAll(Cat(Tail(re.parts)), text, Ends(re.parts[1], text, p, ci), ci)
    [] re.k = "alt" -> EndsOfAlt(re.parts, text, p, ci)
    [] re.k = "star" ->
         IF re.inner.k \in {"class", "dot"}
         THEN \* a run of single characters: every end from the longest down to p
              LET Run(e) == [n \in 1..(e - p + 1) |-> e + 1 - n]
              IN Run(CHOOSE e \in p..Len(text) :
                       /\ \A k \in p..(e - 1) : Ends(re.inner, text, k, ci) # <<>>
                       /\ Ends(re.inner, text, e, ci) = <<>>)
         ELSE EndsOfStar(re, text, Ends(re.inner, text, p, ci), p, ci)

\* re.test(text)
RegexTest(re, text, ci) == \E p \in 0..Len(text) : Ends(re, text, p, ci) # <<>>

NoMatch == [found |-> FALSE, index |-> 0, group |-> <<>>, end |-> 0]

\* the first match of before(group)after in text: its index, its group, its end
RegexExec(before, group, after, text, ci) ==
  LET whole == Cat(<<before, group, after>>)
      \* the ends of the group, in their order, behind which after matches
      Good(e2s) == {b \in 1..Len(e2s) : Ends(after, text, e2s[b], ci) # <<>>}
      Match(p, e1, e2) ==
        [found |-> TRUE, index |-> p, group |-> Slice(text, e1, e2),
         end |-> Ends(after, text, e2, ci)[1]]
      FromGood(p, e1, e2s, good) ==
        Match(p, e1, e2s[CHOOSE x \in good : \A y \in good : x <= y])
      FromGroup(p, e1, e2s) == FromGood(p, e1, e2s, Good(e2s))
      FromBefore(p, e1) == FromGroup(p, e1, Ends(group, text, e1, ci))
      FromEnds(p, e1s) ==
        FromBefore(p, e1s[CHOOSE x \in 1..Len(e1s) :
                            /\ Good(Ends(group, text, e1s[x], ci)) # {}
                            /\ \A y \in 1..(x - 1) : Good(Ends(group, text, e1s[y], ci)) = {}])
      FromStart(p) == FromEnds(p, Ends(before, text, p, ci))
      FromStarts(starts) ==
        IF starts = {} THEN NoMatch
        ELSE FromStart(CHOOSE q \in starts : \A r \in starts : q <= r)
  IN FromStarts({q \in 0..Len(text) : Ends(whole, text, q, ci) # <<>>})

\* \w, \s and [\w.-]
WordClass == Cls(LowerSet \cup UpperSet \cup DigitSet \cup {"_"})
SpaceClass == Cls({" ", "\n", "\t", "\r"})
FileClass == Cls(LowerSet \cup UpperSet \cup DigitSet \cup {"_", ".", "-"})

\* [\w.-]+\.\w+
FileNameRe == Cat(<<Plus(FileClass), Lit(<<".">>), Plus(WordClass)>>)
\* (?:a\s+)?
OptArticle == Opt(Cat(<<Lit(<<"a">>), Plus(SpaceClass)>>))

CREATE_FILE_INTENT ==
  Alt(<< Cat(<< Alt(<<Lit(<<"m", "a", "k", "e">>), Lit(<<"c", "r", "e", "a", "t", "e">>), Lit(<<"w", "r", "i", "t", "e">>)>>), Plus(SpaceClass), OptArticle,
                Alt(<< Lit(<<"f", "i", "l", "e">>),
                       Cat(<<Opt(Lit(<<".">>)), Plus(WordClass), Lit(<<".">>), Plus(WordClass)>>) >>) >>),
         Cat(<< Lit(<<"w", "r", "i", "t", "e">>), Plus(SpaceClass), Star(Dot), Plus(SpaceClass), Lit(<<"t", "o">>),
                Plus(SpaceClass), OptArticle, Lit(<<"f", "i", "l", "e">>) >>),
         Cat(<< Lit(<<"p", "u", "t">>), Plus(SpaceClass), Star(Dot), Plus(SpaceClass), Lit(<<"i", "n">>),
                Plus(SpaceClass), OptArticle, Lit(<<"f", "i", "l", "e">>) >>),
         Cat(<< Lit(<<"f", "i", "l", "e">>), Plus(SpaceClass),
                Opt(Cat(<<Lit(<<"n", "a", "m", "e", "d">>), Plus(SpaceClass)>>)),
                Plus(FileClass), Lit(<<".">>), Plus(WordClass) >>) >>)

\* /(?:named|called)\s+([\w.-]+\.\w+)/i
NamedPhrase == Cat(<<Alt(<<Lit(<<"n", "a", "m", "e", "d">>), Lit(<<"c", "a", "l", "l", "e", "d">>)>>), Plus(SpaceClass)>>)
\* /(?:create|make|write)\s+([\w.-]+\.\w+)/i
CreatePhrase == Cat(<<Alt(<<Lit(<<"c", "r", "e", "a", "t", "e">>), Lit(<<"m", "a", "k", "e">>), Lit(<<"w", "r", "i", "t", "e">>)>>), Plus(SpaceClass)>>)

\* the grave accent, which a string of this notation cannot hold
Backtick == "&#96;"
Fence == <<Backtick, Backtick, Backtick>>

\* own properties of LANGUAGE_DEFAULT_PATH
LANGUAGE_DEFAULT_PATH == {
  [tag |-> <<"c">>, file |-> <<"h", "e", "l", "l", "o", ".", "c">>],
  [tag |-> <<"c", "p", "p">>, file |-> <<"m", "a", "i", "n", ".", "c", "p", "p">>],
  [tag |-> <<"p", "y">>, file |-> <<"m", "a", "i", "n", ".", "p", "y">>],
  [tag |-> <<"p", "y", "t", "h", "o", "n">>, file |-> <<"m", "a", "i", "n", ".", "p", "y">>],
  [tag |-> <<"j", "s">>, file |-> <<"i", "n", "d", "e", "x", ".", "j", "s">>],
  [tag |-> <<"j", "a", "v", "a", "s", "c", "r", "i", "p", "t">>, file |-> <<"i", "n", "d", "e", "x", ".", "j", "s">>],
  [tag |-> <<"t", "s">>, file |-> <<"i", "n", "d", "e", "x", ".", "t", "s">>],
  [tag |-> <<"t", "y", "p", "e", "s", "c", "r", "i", "p", "t">>, file |-> <<"i", "n", "d", "e", "x", ".", "t", "s">>] }

\* LANGUAGE_DEFAULT_PATH[lang]: an own property, else a property the object
\* literal inherits from Object.prototype under a lower-case \w* name, else
\* undefined
LanguageDefault(lang) ==
  IF \E e \in LANGUAGE_DEFAULT_PATH : e.tag = lang
  THEN JsStr((CHOOSE e \in LANGUAGE_DEFAULT_PATH : e.tag = lang).file)
  ELSE IF lang = <<"c", "o", "n", "s", "t", "r", "u", "c", "t", "o", "r">> THEN [t |-> "function", n |-> 0, s |-> <<"O", "b", "j", "e", "c", "t">>]
  ELSE IF lang = <<"_", "_", "p", "r", "o", "t", "o", "_", "_">> THEN [t |-> "object", n |-> 0, s |-> <<"O", "b", "j", "e", "c", "t", ".", "p", "r", "o", "t", "o", "t", "y", "p", "e">>]
  ELSE JsUndef

NoBlock == [found |-> FALSE, content |-> <<>>, lang |-> <<>>, start |-> 0, end |-> 0]

\* slip: the body is trimmed
extractFirstCodeBlockTrimmed(text) ==
  LET Closed(match, afterOpen, closeIdx) ==
        IF closeIdx = -1 THEN NoBlock
        ELSE [found |-> TRUE, content |-> Trim(Slice(text, afterOpen, closeIdx)),
              lang |-> ToLowerCase(match.group), start |-> match.index, end |-> closeIdx + 3]
      Opened(match) ==
        IF ~match.found THEN NoBlock
        ELSE Closed(match, match.end, IndexOf(text, Fence, match.end))
  IN Opened(RegexExec(Lit(Fence), Star(WordClass), Lit(<<"\n">>), text, FALSE))

extractFirstCodeBlock(text) ==
  LET Closed(match, afterOpen, closeIdx) ==
        IF closeIdx = -1 THEN NoBlock
        ELSE [found |-> TRUE, content |-> Slice(text, afterOpen, closeIdx),
              lang |-> ToLowerCase(match.group), start |-> match.index, end |-> closeIdx + 3]
      Opened(match) ==
        IF ~match.found THEN NoBlock
        ELSE Closed(match, match.end, IndexOf(text, Fence, match.end))
  IN Opened(RegexExec(Lit(Fence), Star(WordClass), Lit(<<"\n">>), text, FALSE))

CONFIRMATION == <<"I", "'", "v", "e", " ", "c", "r", "e", "a", "t", "e", "d", " ", "t", "h", "e", " ", "f", "i", "l", "e", ".">>

\* [..].filter(Boolean).join('\n\n')
RECURSIVE JoinParagraphs(_)
JoinParagraphs(parts) ==
  LET Joined(first, rest) ==
        IF rest = <<>> THEN first ELSE first \o <<"\n", "\n">> \o rest
  IN IF parts = <<>> THEN <<>>
     ELSE IF parts[1] = <<>> THEN JoinParagraphs(Tail(parts))
     ELSE Joined(parts[1], JoinParagraphs(Tail(parts)))

NotInferred == [found |-> FALSE, call |-> [id |-> "", name |-> "", args |-> EmptyObject],
                strippedText |-> <<>>]

inferEditFileFromResponse(text, lastUserContent) ==
  LET Inferred(block, path, before, after) ==
        [found |-> TRUE,
         call |-> [id |-> "groq-heuristic-0", name |-> "edit_file",
                   args |-> JsObj(<<Member(<<"p", "a", "t", "h">>, path),
                                    Member(<<"c", "o", "n", "t", "e", "n", "t">>, JsStr(block.content))>>)],
         strippedText |-> Trim(JoinParagraphs(<<before, CONFIRMATION, after>>))]
      WithPath(block, path) ==
        Inferred(block, path, Trim(Slice(text, 0, block.start)),
                 Trim(Slice(text, block.end, Len(text))))
      Created(block, createMatch) ==
        WithPath(block,
                 IF createMatch.found THEN JsStr(createMatch.group)
                 ELSE Coalesce(<<LanguageDefault(block.lang), JsStr(<<"o", "u", "t", "p", "u", "t", ".", "t", "x", "t">>)>>))
      Named(block, namedMatch) ==
        IF namedMatch.found THEN WithPath(block, JsStr(namedMatch.group))
        ELSE Created(block, RegexExec(CreatePhrase, FileNameRe, Cat(<<>>), lastUserContent, TRUE))
      WithBlock(block) ==
        IF ~block.found \/ Trim(block.content) = <<>> THEN NotInferred
        ELSE Named(block, RegexExec(NamedPhrase, FileNameRe, Cat(<<>>), lastUserContent, TRUE))
      AsUser(user) ==
        IF ~RegexTest(CREATE_FILE_INTENT, user, TRUE) THEN NotInferred
        ELSE WithBlock(extractFirstCodeBlock(text))
  IN AsUser(ToLowerCase(Trim(lastUserContent)))

\* ------------------------------------------------------------ the session
\* what the session does between two awaited operations of the environment
AgentSteps ==
  \/ LoopCheck
  \/ CatchError
  \/ ProcessInputReturns
  \/ ForSkip
  \/ ForDone
  \/ ToolStart

\* sessions of the agent: the default cascade, any result of a backend
Init == InitWith({DefaultCascade}, {FALSE}, BOOLEAN)

Next ==
  \/ \E input \in UserInputs : UserLine(input)
  \/ \E out \in NoCallResponses \cup CallResponses : AdapterReturns(out)
  \/ \E error \in AgentErrors : AdapterThrows(error)
  \/ AgentSteps
  \/ FsReaddirDone
  \/ FsStatDone
  \/ FsReadFileDone
  \/ FsAccessDone
  \/ \E confirmed \in BOOLEAN : Confirm(confirmed)
  \/ FsMkdirDone
  \/ FsWriteFileDone
  \/ \E outcome \in CommandOutcomes : ExecaDone(outcome)

Spec == Init /\ [][Next]_vars

\* results of the backends in the sessions that are followed to their end
LiveResponses ==
  NoCallResponses
    \cup {TurnResponse(TRUE, "working", TRUE, cl) :
            cl \in {<<EditA>>, <<ReadA, RunLs>>, <<Nameless, ListRoot>>}}

\* an awaited call of a provider settles: the adapter returns or throws
ProviderSettles ==
  \/ \E out \in LiveResponses : AdapterReturns(out)
  \/ \E error \in AgentErrors : AdapterThrows(error)

\* an awaited operation of a tool settles
ToolSettles ==
  \/ FsReaddirDone
  \/ FsStatDone
  \/ FsReadFileDone
  \/ FsAccessDone
  \/ FsMkdirDone
  \/ FsWriteFileDone
  \/ \E outcome \in CommandOutcomes : ExecaDone(outcome)

\* the prompt of the guard is answered
PromptSettles == \E confirmed \in BOOLEAN : Confirm(confirmed)

\* sessions in which every awaited operation settles and the code that waits
\* for it goes on; the user need not type another line
InitLive == InitWith({DefaultCascade}, {FALSE}, {FALSE})

NextLive ==
  \/ \E input \in UserInputs : UserLine(input)
  \/ ProviderSettles
  \/ AgentSteps
  \/ ToolSettles
  \/ PromptSettles

SpecLive ==
  /\ InitLive
  /\ [][NextLive]_vars
  /\ WF_vars(AgentSteps)
  /\ WF_vars(ProviderSettles)
  /\ WF_vars(ToolSettles)
  /\ WF_vars(PromptSettles)

\* sessions with any guard: the executor is handed a SafetyGuard of any config
InitGuard == InitWith({DefaultCascade}, BOOLEAN, BOOLEAN)

SpecGuard == InitGuard /\ [][Next]_vars

\* sessions of the router: any cascade, any failure of a backend
InitRouter == InitWith(Cascades, {FALSE}, {FALSE})

NextRouter ==
  \/ \E input \in UserInputs : UserLine(input)
  \/ \E out \in RouterResponses : AdapterReturns(out)
  \/ \E error \in RouterErrors : AdapterThrows(error)
  \/ AgentSteps

SpecRouter == InitRouter /\ [][NextRouter]_vars

\* the parts of a session that has not read a line yet
RouterAtRest ==
  /\ providerConfigs = DefaultCascade
  /\ currentIndex = 0
  /\ startIndex = 0
  /\ i = 0
  /\ lastError = NoError
  /\ lastRetryable = FALSE
  /\ full = <<>>
  /\ attempts = <<>>
  /\ logged = <<>>
  /\ answeredBy = -1

FrameAtRest ==
  /\ response = TurnResponse(FALSE, "", FALSE, <<>>)
  /\ callIdx = 0
  /\ toolResults = <<>>
  /\ thrown = NoError
  /\ printed = NothingPrinted
  /\ lines = 0
  /\ asked = 0

ToolsAtRest ==
  /\ autoApprove = FALSE
  /\ confirmFileReads = FALSE
  /\ fs = [p \in FsPaths |-> NoFile]
  /\ tool = NoTool
  /\ performed = <<>>
  /\ returned = NoResult
  /\ inflight = NoInflight

\* histories a caller can hand to sendMessage
TurnPool == {
  [role |-> "system", content |-> SYSTEM_PROMPT],
  [role |-> "system", content |-> "Be brief."],
  [role |-> "user", content |-> "hi"],
  [role |-> "assistant", content |-> "working", functionCalls |-> <<ReadA>>],
  [role |-> "tool", toolCallId |-> ReadA.id, name |-> ReadA.name,
   content |-> JSONStringify(ErrorResult("Path is required"))] }

Histories == UNION {[1..k -> TurnPool] : k \in 0..MaxHistory}

\* Router.sendMessage on its own: a caller hands over a history
InitSend ==
  /\ messages \in Histories
  /\ pc = "Send"
  /\ RouterAtRest
  /\ FrameAtRest
  /\ ToolsAtRest
  /\ groq = NoGroq
  /\ contents = <<>>

SendMessage ==
  /\ pc = "Send"
  /\ RouterSend(messages)
  /\ UNCHANGED <<loopVars, printed, lines, autoApprove, confirmFileReads, fs, tool, performed, returned, groq, contents>>

NextSend == SendMessage

SpecSend == InitSend /\ [][NextSend]_vars

\* --------------------------------- the Recovering Adapter's sendTurn
\* out.text && (!out.functionCalls || out.functionCalls.length === 0)
\* slip: the calls the result already has are not looked at
RecoveryAppliesTextOnly(out) == out.hasText /\ out.text # <<>>

RecoveryApplies(out) ==
  /\ out.hasText /\ out.text # <<>>
  /\ (~out.hasCalls \/ Len(out.functionCalls) = 0)

\* one entry of m.tool_calls as a ToolCall
StructuredCall(raw) ==
  [id |-> Str(Coalesce(<<raw.id, JsStr(<<>>)>>).s),
   name |-> Str(Coalesce(<<raw.name, JsStr(<<>>)>>).s),
   args |-> parseArgs(Coalesce(<<raw.arguments, JsStr(<<"{", "}">>)>>).s)]

\* out after the message of the backend is taken over
StructuredOut(message) ==
  LET hasText == message.content.t = "string" /\ message.content.s # <<>>
      hasCalls == Len(message.toolCalls) > 0
  IN TurnResponse(hasText, IF hasText THEN message.content.s ELSE <<>>, hasCalls,
                  [k \in 1..Len(message.toolCalls) |-> StructuredCall(message.toolCalls[k])])

\* slip: only a user turn at the end of the history counts
LastUserContentAtEnd(msgs) ==
  IF msgs # <<>> /\ msgs[Len(msgs)].role = "user" THEN msgs[Len(msgs)].content ELSE <<>>

\* [...messages].reverse().find((m) => m.role === 'user'), its content or ''
LastUserContent(msgs) ==
  IF \E k \in 1..Len(msgs) : msgs[k].role = "user"
  THEN msgs[CHOOSE k \in 1..Len(msgs) :
              /\ msgs[k].role = "user"
              /\ \A j \in (k + 1)..Len(msgs) : msgs[j].role # "user"].content
  ELSE <<>>

\* the backend's message a call of sendTurn works on
GroqMessage(present, content, toolCalls, parts) ==
  [present |-> present, content |-> content, toolCalls |-> toolCalls, parts |-> parts,
   repaired |-> FALSE, inferred |-> FALSE, calls |-> <<>>, strippedText |-> <<>>]

\* sendTurn from the message of the backend on: it takes the message over,
\* repairs the text, falls back to the heuristic; out and what the two steps did
sendTurn(message, msgs) ==
  LET Returned(taken, repair, repaired, mended, inferred, guess) ==
        [out |-> IF inferred
                 THEN TurnResponse(TRUE, guess.strippedText, TRUE, <<guess.call>>)
                 ELSE mended,
         repaired |-> repaired,
         inferred |-> inferred,
         calls |-> IF RecoveryApplies(taken) THEN repair.calls ELSE <<>>,
         strippedText |-> IF RecoveryApplies(taken) THEN repair.strippedText ELSE <<>>]
      Guessed(taken, repair, repaired, mended, guess) ==
        Returned(taken, repair, repaired, mended, RecoveryApplies(mended) /\ guess.found, guess)
      Mended(taken, repair, repaired, mended) ==
        Guessed(taken, repair, repaired, mended,
                inferEditFileFromResponse(mended.text, LastUserContent(msgs)))
      Repaired(taken, repair, repaired) ==
        Mended(taken, repair, repaired,
               IF repaired THEN TurnResponse(TRUE, repair.strippedText, TRUE, repair.calls)
               ELSE taken)
      Taken(taken, repair) ==
        Repaired(taken, repair, RecoveryApplies(taken) /\ Len(repair.calls) > 0)
      Start(taken) == Taken(taken, repairMalformedToolCalls(taken.text))
  IN Start(StructuredOut(message))

\* the awaited completion resolves and sendTurn returns out
GroqSendTurn ==
  /\ pc = "GroqCall"
  /\ IF ~groq.present
     THEN /\ response' = TurnResponse(FALSE, <<>>, FALSE, <<>>)
          /\ UNCHANGED groq
     ELSE \E r \in {sendTurn(groq, full)} :
            /\ response' = r.out
            /\ groq' = [groq EXCEPT !.repaired = r.repaired, !.inferred = r.inferred,
                                    !.calls = r.calls, !.strippedText = r.strippedText]
  /\ inflight' = Ended("provider")
  /\ pc' = "GroqReturned"
  /\ UNCHANGED <<routerVars, messages, callIdx, toolResults, asked, thrown, printed, lines,
                 autoApprove, confirmFileReads, fs, tool, performed, returned, contents>>

\* the awaited completion rejects: sendTurn has no catch, the error goes on
\* to the Router
GroqFails(error) ==
  /\ pc = "GroqCall"
  /\ thrown' = Raised(error, 0)
  /\ inflight' = Ended("provider")
  /\ pc' = "GroqThrew"
  /\ UNCHANGED <<routerVars, loopVars, printed, lines, autoApprove, confirmFileReads, fs, tool, performed, returned, groq, contents>>

\* ---- responses with marker spans
Span(name, paren, payload) ==
  [kind |-> "span", name |-> name, paren |-> paren, payload |-> payload,
   text |-> PREFIX \o name \o (IF paren THEN <<"(">> ELSE <<>>) \o payload
              \o (IF paren THEN <<")">> ELSE <<>>) \o <<">">>]
Plain(text) == [kind |-> "plain", name |-> <<>>, paren |-> FALSE, payload |-> <<>>, text |-> text]
Junk(text) == [kind |-> "junk", name |-> <<>>, paren |-> FALSE, payload |-> <<>>, text |-> text]

SpanPieces == {
  Span(<<"f">>, FALSE, <<"{", "}">>),
  Span(<<"r", "e", "a", "d", "_", "f", "i", "l", "e">>, TRUE, <<"{", "\"", "p", "a", "t", "h", "\"", ":", "\"", "a", ".", "t", "x", "t", "\"", "}">>),
  Span(<<"g", "_", "1">>, FALSE, <<"{", "\"", "a", "\"", ":", "{", "\"", "b", "\"", ":", "2", "}", "}">>),
  Span(<<"F">>, TRUE, <<"{", "a", "}">>) }

PlainPieces == { Plain(<<"h", "i">>), Plain(<<" ">>), Plain(<<"x", "}">>) }

\* markers that are no well-formed span: the bare marker, a payload that is
\* never closed, a span without its closing angle bracket
JunkPieces == { Junk(<<"<", "f", "u", "n", "c", "t", "i", "o", "n", "=">>), Junk(<<"<", "f", "u", "n", "c", "t", "i", "o", "n", "=", "g", "{">>), Junk(<<"<", "f", "u", "n", "c", "t", "i", "o", "n", "=", "h", "{", "}">>) }

Pieces == SpanPieces \cup PlainPieces \cup JunkPieces

\* spans whose payload has braces inside a string value
Quoted(name, paren, payload) == [Span(name, paren, payload) EXCEPT !.kind = "quoted"]

QuotedPieces == {
  Quoted(<<"w">>, FALSE, <<"{", "\"", "c", "\"", ":", "\"", "}", "\"", "}">>),
  Quoted(<<"w">>, TRUE, <<"{", "\"", "c", "\"", ":", "\"", "a", "}", "b", "\"", "}">>),
  Quoted(<<"e">>, FALSE, <<"{", "\"", "a", "\"", ":", "{", "\"", "c", "\"", ":", "\"", "}", "\"", "}", "}">>),
  Quoted(<<"w">>, FALSE, <<"{", "\"", "c", "\"", ":", "\"", "}", ")", ">", "\"", "}">>),
  Quoted(<<"w">>, FALSE, <<"{", "\"", "c", "\"", ":", "\"", "{", "}", "\"", "}">>),
  Quoted(<<"w">>, TRUE, <<"{", "\"", "c", "\"", ":", "\"", "}", "\"", ",", "\"", "d", "\"", ":", "\"", "{", "\"", "}">>) }

RECURSIVE TextOf(_)
TextOf(parts) == IF parts = <<>> THEN <<>> ELSE parts[1].text \o TextOf(Tail(parts))

MarkerMessages ==
  {GroqMessage(TRUE, JsStr(TextOf(parts)), <<>>, parts) :
     parts \in UNION {[1..k -> Pieces] : k \in 0..MaxPieces}}

\* a span with braces in a string, behind text or a span and before text
QuotedMessages ==
  {GroqMessage(TRUE, JsStr(TextOf(<<b, q, a>>)), <<>>, <<b, q, a>>) :
     b \in {Plain(<<>>), Plain(<<"h", "i">>), Span(<<"f">>, FALSE, <<"{", "}">>)},
     q \in QuotedPieces,
     a \in {Plain(<<>>), Plain(<<"\n", "D", "o", "n", "e", ".">>)}}

\* ---- responses with a fenced block
UserSaysHi == <<"h", "i">>
UserNamesFile == <<"c", "r", "e", "a", "t", "e", " ", "a", " ", "f", "i", "l", "e", " ", "n", "a", "m", "e", "d", " ", "n", "o", "t", "e", "s", ".", "t", "x", "t", " ", "w", "i", "t", "h", " ", "h", "e", "l", "l", "o">>
UserCreatesAndCalls == <<"C", "r", "e", "a", "t", "e", " ", "m", "a", "i", "n", ".", "p", "y", " ", "c", "a", "l", "l", "e", "d", " ", "a", "p", "p", ".", "j", "s">>
UserWritesFile == <<"p", "l", "e", "a", "s", "e", " ", "w", "r", "i", "t", "e", " ", " ", "o", "u", "t", ".", "m", "d", " ", "n", "o", "w">>
UserMakesFile == <<" ", " ", "M", "A", "K", "E", " ", "a", " ", "F", "i", "l", "e", " ">>
UserPutsInFile == <<"p", "u", "t", " ", "i", "t", " ", "i", "n", " ", "a", " ", "f", "i", "l", "e">>
UserRenamed == <<"i", "t", " ", "i", "s", " ", "c", "a", "l", "l", "e", "d", " ", "x", ".", "t", "x", "t">>

UserTexts == {UserSaysHi, UserNamesFile, UserCreatesAndCalls, UserWritesFile, UserMakesFile,
              UserPutsInFile, UserRenamed}

UserTurn(content) == [role |-> "user", content |-> content]
SystemTurn == [role |-> "system", content |-> SYSTEM_PROMPT]
AssistantTurn == [role |-> "assistant", content |-> "working", functionCalls |-> <<ReadA>>]
ToolTurn == [role |-> "tool", toolCallId |-> ReadA.id, name |-> ReadA.name,
             content |-> JSONStringify(ErrorResult("Path is required"))]

\* histories the Router hands to the adapter
GroqHistories ==
  {<<SystemTurn>>}
    \cup {<<SystemTurn, UserTurn(u)>> : u \in UserTexts}
    \cup {<<SystemTurn, UserTurn(u), AssistantTurn, ToolTurn>> : u \in {UserSaysHi, UserNamesFile}}
    \cup {<<SystemTurn, UserTurn(UserSaysHi), UserTurn(UserNamesFile)>>,
          <<SystemTurn, UserTurn(UserNamesFile), UserTurn(UserSaysHi)>>,
          <<SystemTurn, UserTurn(UserNamesFile), UserTurn(UserMakesFile)>>}

Block(lang, body, closed) ==
  [kind |-> "block", lang |-> lang, body |-> body, closed |-> closed,
   text |-> Fence \o lang \o <<"\n">> \o body \o (IF closed THEN Fence ELSE <<>>)]
NoBlockPart == [kind |-> "none", lang |-> <<>>, body |-> <<>>, closed |-> FALSE, text |-> <<>>]

BlockLangs == {<<>>, <<"p", "y">>, <<"J", "S">>, <<"r", "b">>, <<"c", "+", "+">>,
               <<"c", "o", "n", "s", "t", "r", "u", "c", "t", "o", "r">>}
BlockBodies == {<<"h", "e", "l", "l", "o">>, <<"h", "e", "l", "l", "o", "\n">>, <<" ", "\n">>, <<>>}

BlockParts ==
  {NoBlockPart} \cup {Block(lang, body, closed) :
                        lang \in BlockLangs, body \in BlockBodies, closed \in BOOLEAN}

BeforeParts == {Plain(<<>>), Plain(<<"H", "e", "r", "e", ":", "\n">>), Span(<<"f">>, FALSE, <<"{", "}">>), Junk(<<"<", "f", "u", "n", "c", "t", "i", "o", "n", "=", " ">>)}
AfterParts == {Plain(<<>>), Plain(<<"\n", "D", "o", "n", "e", ".">>)}

\* a structured call of the backend
RawCall == [id |-> JsStr(<<"c", "a", "l", "l", "_", "9">>), name |-> JsStr(<<"r", "e", "a", "d", "_", "f", "i", "l", "e">>),
            arguments |-> JsStr(<<"{", "\"", "p", "a", "t", "h", "\"", ":", "\"", "a", ".", "t", "x", "t", "\"", "}">>)]

\* structured calls the backend sends without an id
RawRead == [id |-> JsUndef, name |-> JsStr(<<"r", "e", "a", "d", "_", "f", "i", "l", "e">>),
            arguments |-> JsStr(<<"{", "\"", "p", "a", "t", "h", "\"", ":", "\"", "a", ".", "t", "x", "t", "\"", "}">>)]
RawList == [id |-> JsUndef, name |-> JsStr(<<"l", "i", "s", "t", "_", "f", "i", "l", "e", "s">>),
            arguments |-> JsStr(<<"{", "}">>)]

BlockMessages ==
  {GroqMessage(TRUE, JsStr(TextOf(<<b, blk, a>>)), tc, <<b, blk, a>>) :
     b \in BeforeParts, blk \in BlockParts, a \in AfterParts, tc \in {<<>>, <<RawCall>>}}
    \cup {GroqMessage(TRUE, JsUndef, tc, <<>>) :
            tc \in {<<>>, <<RawCall>>, <<RawCall, RawList>>, <<RawRead, RawList>>}}
    \cup {GroqMessage(FALSE, JsUndef, <<>>, <<>>)}

\* sendTurn of the Recovering Adapter on its own: the Router handed over a
\* history and the completion is awaited
InitGroq ==
  /\ pc = "GroqCall"
  /\ \/ /\ groq \in MarkerMessages \cup QuotedMessages
        /\ full = <<SystemTurn, UserTurn(UserSaysHi)>>
     \/ /\ groq \in BlockMessages
        /\ full \in GroqHistories
  /\ providerConfigs = <<"groq">>
  /\ currentIndex = 0
  /\ startIndex = 0
  /\ i = 0
  /\ lastError = NoError
  /\ lastRetryable = FALSE
  /\ attempts = <<0>>
  /\ logged = <<>>
  /\ answeredBy = -1
  /\ messages = <<>>
  /\ FrameAtRest
  /\ autoApprove = FALSE
  /\ confirmFileReads = FALSE
  /\ fs = [p \in FsPaths |-> NoFile]
  /\ tool = NoTool
  /\ performed = <<>>
  /\ returned = NoResult
  /\ inflight = [NoInflight EXCEPT !.provider = 1]
  /\ contents = <<>>

NextGroq ==
  \/ GroqSendTurn
  \/ \E error \in AgentErrors : GroqFails(error)

SpecGroq == InitGroq /\ [][NextGroq]_vars

\* ---- the path check of the tools on its own
\* path arguments a backend can send: up to MaxPathSegs segments, relative
\* or absolute, and the empty string
PathSegments == {<<".", ".">>, <<".">>, <<"s", "u", "b">>, <<"f", "i", "l", "e", ".", "t", "x", "t">>, <<"w", "o", "r", "k">>, <<"w", "o", "r", "k", "2">>, <<"o", "u", "t", "s", "i", "d", "e">>, <<"x">>}

RECURSIVE JoinWithSlash(_)
JoinWithSlash(segs) ==
  IF Len(segs) = 1 THEN segs[1] ELSE segs[1] \o <<Slash>> \o JoinWithSlash(Tail(segs))

PathInputs ==
  {<<>>} \cup {(IF absolute THEN <<Slash>> ELSE <<>>) \o JoinWithSlash(segs) :
                 absolute \in BOOLEAN,
                 segs \in UNION {[1..k -> PathSegments] : k \in 1..MaxPathSegs}}

PathCalls ==
  {[id |-> "call_1", name |-> name, args |-> Args(JsStr(p), JsUndef, JsUndef)] :
     name \in {"list_files", "read_file"}, p \in PathInputs}

\* the for loop of processInput stands at the one call of a response
InitPath ==
  /\ \E call \in PathCalls : response = TurnResponse(FALSE, "", TRUE, <<call>>)
  /\ pc = "ForCall"
  /\ callIdx = 1
  /\ RouterAtRest
  /\ messages = <<>>
  /\ toolResults = <<>>
  /\ thrown = NoError
  /\ printed = NothingPrinted
  /\ lines = 0
  /\ asked = 0
  /\ autoApprove = FALSE
  /\ confirmFileReads = FALSE
  /\ fs = [p \in FsPaths |-> NoFile]
  /\ tool = NoTool
  /\ performed = <<>>
  /\ returned = NoResult
  /\ inflight = NoInflight
  /\ groq = NoGroq
  /\ contents = <<>>

NextPath ==
  \/ ToolStart
  \/ FsReaddirDone
  \/ FsStatDone
  \/ FsReadFileDone

SpecPath == InitPath /\ [][NextPath]_vars

\* ---- the tools on their own
\* the arguments a backend can send with a call: strings, a number, nothing
ToolPathArgs == {JsUndef, JsStr(<<>>), JsStr(<<".">>), JsStr(FileA), JsStr(SubDir), JsStr(SubFile),
                 JsStr(OutsideFile), JsStr(<<"/", "w", "o", "r", "k", "2", "/", "x">>), JsNum(5)}

ToolContentArgs == {JsUndef, JsStr(<<>>), JsStr(<<"h", "e", "l", "l", "o">>), JsNum(5)}

ToolCommandArgs == {JsUndef, JsStr(<<>>), JsNum(5), JsStr(<<"l", "s">>),
                    JsStr(<<"r", "m", " ", "-", "r", "f", " ", "/">>),
                    JsStr(<<"s", "u", "d", "o", " ", "m", "k", "f", "s", ".", "e", "x", "t", "4">>),
                    JsStr(<<":", "(", ")", "{", " ", ":", "|", ":", "&", " ", "}", ";", ":">>),
                    JsStr(<<"d", "d", " ", "i", "f", "=", "/", "d", "e", "v", "/", "z", "e", "r", "o", " ", "o", "f", "=", "x">>),
                    JsStr(<<"R", "M", " ", "-", "R", "F", " ", "/">>)}

ToolCalls ==
  {[id |-> "call_1", name |-> name, args |-> Args(p, JsUndef, JsUndef)] :
     name \in {"list_files", "read_file", "delete_file"}, p \in ToolPathArgs}
  \cup {[id |-> "call_1", name |-> "edit_file", args |-> Args(p, c, JsUndef)] :
          p \in ToolPathArgs, c \in ToolContentArgs}
  \cup {[id |-> "call_1", name |-> "run_command", args |-> Args(JsUndef, JsUndef, c)] :
          c \in ToolCommandArgs}

\* texts of a.txt: short, of the threshold's size, one byte more, and texts
\* with characters of two and three bytes
FileTexts == {
  Runs(<<"h", "i">>),
  <<TextRun("a", ReadThreshold)>>,
  <<TextRun("a", ReadThreshold + 1)>>,
  <<TextRun("a", ReadThreshold - 1), TextRun(EAcute, 1)>>,
  <<TextRun(Ideograph, 100000), TextRun("\n", 1)>> }

\* the workspace: a.txt is missing or a file, sub is missing, a file, or a
\* directory that may hold file.txt
Workspaces ==
  {[p \in FsPaths |->
      IF p = PathResolve(PROJECT_ROOT, FileA) THEN a
      ELSE IF p = PathResolve(PROJECT_ROOT, SubDir) THEN sub[1]
      ELSE sub[2]] :
     a \in {NoFile} \cup {FileOf(text) : text \in FileTexts},
     sub \in {<<NoFile, NoFile>>, <<FileOf(Runs(<<"x">>)), NoFile>>, <<Directory, NoFile>>,
              <<Directory, FileOf(Runs(<<"o", "l", "d">>))>>}}

\* the for loop of processInput stands at the one call of a response, for
\* any guard and any workspace
InitTools ==
  /\ \E call \in ToolCalls : response = TurnResponse(FALSE, "", TRUE, <<call>>)
  /\ pc = "ForCall"
  /\ callIdx = 1
  /\ RouterAtRest
  /\ messages = <<>>
  /\ toolResults = <<>>
  /\ thrown = NoError
  /\ printed = NothingPrinted
  /\ lines = 0
  /\ asked = 0
  /\ autoApprove \in BOOLEAN
  /\ confirmFileReads \in BOOLEAN
  /\ fs \in Workspaces
  /\ tool = NoTool
  /\ performed = <<>>
  /\ returned = NoResult
  /\ inflight = NoInflight
  /\ groq = NoGroq
  /\ contents = <<>>

NextTools ==
  \/ ToolStart
  \/ FsReaddirDone
  \/ FsStatDone
  \/ FsReadFileDone
  \/ FsAccessDone
  \/ \E confirmed \in BOOLEAN : Confirm(confirmed)
  \/ FsMkdirDone
  \/ FsWriteFileDone
  \/ \E outcome \in CommandOutcomes : ExecaDone(outcome)

SpecTools == InitTools /\ [][NextTools]_vars

\* ----------------------------- the session with the Recovering Adapter
\* args.path, args.content, args.command of a call's argument object
ArgOf(args, key) ==
  IF args.t = "object" /\ \E k \in 1..Len(args.members) : args.members[k].key = key
  THEN args.members[CHOOSE k \in 1..Len(args.members) : args.members[k].key = key].value
  ELSE JsUndef

\* a call of the adapter as the executor reads it
SessionCall(call) ==
  [id |-> call.id, name |-> call.name,
   args |-> Args(ArgOf(call.args, <<"p", "a", "t", "h">>),
                 ArgOf(call.args, <<"c", "o", "n", "t", "e", "n", "t">>),
                 ArgOf(call.args, <<"c", "o", "m", "m", "a", "n", "d">>))]

\* out of the adapter as processInput holds it
SessionOut(out) ==
  TurnResponse(out.hasText, Str(out.text), out.hasCalls,
               [k \in 1..Len(out.functionCalls) |-> SessionCall(out.functionCalls[k])])

\* lines the user types in these sessions
FileLines == {UserSaysHi, UserNamesFile}

\* the history with the user turns by their characters
ByChars(msgs) ==
  [k \in 1..Len(msgs) |->
     IF msgs[k].role = "user"
     THEN [msgs[k] EXCEPT !.content = CHOOSE line \in FileLines : Str(line) = @]
     ELSE msgs[k]]

\* a backend that answers with a fenced block each time
FencedMessages ==
  {GroqMessage(TRUE, JsStr(TextOf(<<b, blk, a>>)), <<>>, <<b, blk, a>>) :
     b \in {Plain(<<"H", "e", "r", "e", ":", "\n">>)},
     blk \in {Block(<<>>, <<"h", "e", "l", "l", "o", "\n">>, TRUE),
              Block(<<"p", "y">>, <<"h", "e", "l", "l", "o">>, TRUE)},
     a \in {Plain(<<>>), Plain(<<"\n", "D", "o", "n", "e", ".">>)}}

\* the completion resolves with the message and the adapter's sendTurn
\* returns to the Router
GroqAnswers(message) == AdapterReturns(SessionOut(sendTurn(message, ByChars(full)).out))

InitHeuristic == InitWith({<<"groq">>}, {FALSE}, {FALSE})

\* the calls of the adapter all have a name: the for loop skips none
NextHeuristic ==
  \/ \E input \in FileLines : UserLine(input)
  \/ \E message \in FencedMessages : GroqAnswers(message)
  \/ \E error \in AgentErrors : AdapterThrows(error)
  \/ LoopCheck
  \/ CatchError
  \/ ProcessInputReturns
  \/ ForDone
  \/ ToolStart
  \/ FsAccessDone
  \/ \E confirmed \in BOOLEAN : Confirm(confirmed)
  \/ FsMkdirDone
  \/ FsWriteFileDone

SpecHeuristic == InitHeuristic /\ [][NextHeuristic]_vars

\* ------------------------------------------- Structured Adapter (gemini)
\* parseToolResultContent: the parsed content under the key result, the
\* content itself when it is no JSON
parseToolResultContent(content) ==
  LET Wrapped(parsed) == IF parsed.ok THEN [result |-> parsed.value]
                         ELSE [result |-> JsStr(content)]
  IN Wrapped(JSONParse(content))

createPartFromText(text) == [text |-> text]
createPartFromFunctionCall(name, args) == [functionCall |-> [name |-> name, args |-> args]]
createPartFromFunctionResponse(id, name, parsed) ==
  [functionResponse |-> [id |-> id, name |-> name, response |-> parsed]]

\* slip: every pending tool part gets an entry of its own
FlushPendingOneByOne(entries, pendingToolParts) ==
  entries \o [k \in 1..Len(pendingToolParts) |-> [role |-> "user", parts |-> <<pendingToolParts[k]>>]]

\* if (pendingToolParts.length > 0) contents.push({role: 'user', parts: pendingToolParts})
FlushPending(entries, pendingToolParts) ==
  IF Len(pendingToolParts) > 0
  THEN Append(entries, [role |-> "user", parts |-> pendingToolParts])
  ELSE entries

\* args ?? {}
ArgsOrEmpty(args) == IF args = JsUndef THEN EmptyObject ELSE args

\* the parts of an assistant turn: its text if it has any, then its calls
AssistantParts(msg) ==
  (IF msg.content # "" THEN <<createPartFromText(msg.content)>> ELSE <<>>)
    \o [k \in 1..Len(msg.functionCalls) |->
          createPartFromFunctionCall(msg.functionCalls[k].name,
                                     ArgsOrEmpty(msg.functionCalls[k].args))]

\* the for loop of normalizedMessagesToContents from the k-th message on
RECURSIVE ContentsFrom(_, _, _, _)
ContentsFrom(msgs, k, entries, pendingToolParts) ==
  IF k > Len(msgs) THEN FlushPending(entries, pendingToolParts)
  ELSE LET msg == msgs[k]
       IN CASE msg.role = "system" -> ContentsFrom(msgs, k + 1, entries, pendingToolParts)
            [] msg.role = "user" ->
                 ContentsFrom(msgs, k + 1,
                              Append(FlushPending(entries, pendingToolParts),
                                     [role |-> "user", parts |-> <<createPartFromText(msg.content)>>]),
                              <<>>)
            [] msg.role = "assistant" ->
                 ContentsFrom(msgs, k + 1,
                              IF Len(AssistantParts(msg)) > 0
                              THEN Append(FlushPending(entries, pendingToolParts),
                                          [role |-> "model", parts |-> AssistantParts(msg)])
                              ELSE FlushPending(entries, pendingToolParts),
                              <<>>)
            [] msg.role = "tool" ->
                 ContentsFrom(msgs, k + 1, entries,
                              Append(pendingToolParts,
                                     createPartFromFunctionResponse(
                                       msg.toolCallId, msg.name,
                                       parseToolResultContent(msg.content))))
            [] OTHER -> ContentsFrom(msgs, k + 1, entries, pendingToolParts)

normalizedMessagesToContents(msgs) == ContentsFrom(msgs, 1, <<>>, <<>>)

\* one entry of response.functionCalls as a ToolCall
GeminiCall(f) ==
  [id |-> Str(Coalesce(<<f.id, JsStr(<<>>)>>).s),
   name |-> Str(Coalesce(<<f.name, JsStr(<<>>)>>).s),
   args |-> ArgsOrEmpty(f.args)]

responseToTurnResponse(raw) ==
  LET hasText == raw.text.t = "string" /\ raw.text.s # <<>>
      hasCalls == Len(raw.functionCalls) > 0
  IN TurnResponse(hasText, IF hasText THEN raw.text.s ELSE <<>>, hasCalls,
                  [k \in 1..Len(raw.functionCalls) |-> GeminiCall(raw.functionCalls[k])])

\* a call the model asked for without arguments
ListBare == [id |-> "call_4", name |-> "list_files", args |-> JsUndef]

\* the content of a tool turn, by its characters
ResultJson == <<"{", "\"", "e", "r", "r", "o", "r", "\"", ":", "\"", "n", "o", "\"", "}">>
ResultText == <<"n", "o", " ", "j", "s", "o", "n">>

GeminiTurns == {
  [role |-> "system", content |-> SYSTEM_PROMPT],
  [role |-> "user", content |-> "hi"],
  [role |-> "assistant", content |-> "working", functionCalls |-> <<ReadA>>],
  [role |-> "assistant", content |-> "", functionCalls |-> <<ReadA, ListBare>>],
  [role |-> "assistant", content |-> "done", functionCalls |-> <<>>],
  [role |-> "assistant", content |-> "", functionCalls |-> <<>>],
  [role |-> "tool", toolCallId |-> ReadA.id, name |-> ReadA.name, content |-> ResultJson],
  [role |-> "tool", toolCallId |-> ListBare.id, name |-> ListBare.name, content |-> ResultText] }

\* histories the Router hands to the adapter
GeminiHistories == UNION {[1..k -> GeminiTurns] : k \in 0..MaxHistory}

\* what generateContent resolves to: response.text and response.functionCalls
GeminiResponses == {
  [text |-> JsUndef, functionCalls |-> <<>>],
  [text |-> JsStr(<<"d", "o", "n", "e">>), functionCalls |-> <<>>],
  [text |-> JsStr(<<>>),
   functionCalls |-> <<[id |-> JsUndef, name |-> JsStr(<<"l", "i", "s", "t", "_", "f", "i", "l", "e", "s">>), args |-> JsUndef]>>] }

\* sendTurn of the Structured Adapter up to the await of generateContent
GeminiSendTurn ==
  /\ pc = "GeminiCall"
  /\ contents' = normalizedMessagesToContents(full)
  /\ inflight' = Began("provider")
  /\ pc' = "GeminiAwaiting"
  /\ UNCHANGED <<routerVars, loopVars, thrown, printed, lines, autoApprove, confirmFileReads,
                 fs, tool, performed, returned, groq>>

\* generateContent resolves and sendTurn returns the converted response
GeminiReturns(raw) ==
  /\ pc = "GeminiAwaiting"
  /\ response' = responseToTurnResponse(raw)
  /\ inflight' = Ended("provider")
  /\ pc' = "GeminiReturned"
  /\ UNCHANGED <<routerVars, messages, callIdx, toolResults, asked, thrown, printed, lines,
                 autoApprove, confirmFileReads, fs, tool, performed, returned, groq, contents>>

\* generateContent rejects: sendTurn has no catch
GeminiFails(error) ==
  /\ pc = "GeminiAwaiting"
  /\ thrown' = Raised(error, 0)
  /\ inflight' = Ended("provider")
  /\ pc' = "GeminiThrew"
  /\ UNCHANGED <<routerVars, loopVars, printed, lines, autoApprove, confirmFileReads,
                 fs, tool, performed, returned, groq, contents>>

\* sendTurn of the Structured Adapter on its own: the Router handed over a history
InitGemini ==
  /\ pc = "GeminiCall"
  /\ full \in GeminiHistories
  /\ providerConfigs = <<"gemini">>
  /\ currentIndex = 0
  /\ startIndex = 0
  /\ i = 0
  /\ lastError = NoError
  /\ lastRetryable = FALSE
  /\ attempts = <<0>>
  /\ logged = <<>>
  /\ answeredBy = -1
  /\ messages = <<>>
  /\ FrameAtRest
  /\ ToolsAtRest
  /\ groq = NoGroq
  /\ contents = <<>>

NextGemini ==
  \/ GeminiSendTurn
  \/ \E raw \in GeminiResponses : GeminiReturns(raw)
  \/ \E error \in AgentErrors : GeminiFails(error)

SpecGemini == InitGemini /\ [][NextGemini]_vars

\* isRetryableError on its own: one error is drawn and classified
InitClassify ==
  /\ \E error \in ProviderErrors : lastError = Raised(error, 0)
  /\ lastRetryable = FALSE
  /\ pc = "Classify"
  /\ providerConfigs = DefaultCascade
  /\ currentIndex = 0
  /\ startIndex = 0
  /\ i = 0
  /\ full = <<>>
  /\ attempts = <<>>
  /\ logged = <<>>
  /\ answeredBy = -1
  /\ messages = <<>>
  /\ response = TurnResponse(FALSE, "", FALSE, <<>>)
  /\ callIdx = 0
  /\ toolResults = <<>>
  /\ thrown = NoError
  /\ printed = NothingPrinted
  /\ lines = 0
  /\ asked = 0
  /\ autoApprove = FALSE
  /\ confirmFileReads = FALSE
  /\ fs = [p \in FsPaths |-> NoFile]
  /\ tool = NoTool
  /\ performed = <<>>
  /\ returned = NoResult
  /\ inflight = NoInflight
  /\ groq = NoGroq
  /\ contents = <<>>

Classify ==
  /\ pc = "Classify"
  /\ lastRetryable' = isRetryableError(lastError.error)
  /\ pc' = "Classified"
  /\ UNCHANGED <<providerConfigs, currentIndex, startIndex, i, lastError, full, attempts, logged,
                 answeredBy, messages, response, callIdx, toolResults, thrown, printed,
                 lines, asked, autoApprove, confirmFileReads, fs, tool, performed, returned, groq, contents, inflight>>

NextClassify == Classify

SpecClassify == InitClassify /\ [][NextClassify]_vars

\* ================================================================ claims
NumProviders == Len(providerConfigs)
LastAttempt == attempts[Len(attempts)]

\* C1: when sendTurn returns after a fallback, the result is the one of the
\* provider k tried last, the sticky index is k, and every later Router call
\* makes its first attempt on the provider that answered last.
C1_FallbackSticks ==
  /\ pc = "LoopCheck" =>
       /\ answeredBy = LastAttempt
       /\ currentIndex = LastAttempt
  /\ (pc = "AwaitingModel" /\ answeredBy # -1) => attempts[1] = answeredBy

\* a Router call that starts on a provider other than the first of the
\* cascade, which answered after the first had failed
C1_Witness ==
  /\ NumProviders >= 2
  /\ pc = "AwaitingModel"
  /\ answeredBy > 0
  /\ attempts = <<answeredBy>>

\* C2: when sendTurn throws after a retryable error, the cascade is exhausted:
\* every provider was tried exactly once and the error thrown is the one of
\* the provider tried last, cascade index (start + n - 1) mod n.
C2_ExhaustionThrowsLast ==
  (pc = "RouterThrew" /\ lastRetryable) =>
    /\ Len(attempts) = NumProviders
    /\ \A k \in 0..(NumProviders - 1) : Cardinality({j \in 1..Len(attempts) : attempts[j] = k}) = 1
    /\ thrown.defined
    /\ thrown.from = (startIndex + NumProviders - 1) % NumProviders
    /\ thrown.from = LastAttempt

C2_Witness ==
  /\ pc = "RouterThrew"
  /\ lastRetryable
  /\ NumProviders = 3
  /\ startIndex = 1
  /\ thrown.from = 0

\* C3: a non-retryable error ends the call at once: sendTurn never goes on to
\* another provider after one, and what it throws is that same error, raised
\* by the provider tried last.
C3_NonRetryableAborts ==
  /\ (pc = "AwaitingModel" /\ lastError.defined) => lastRetryable
  /\ (pc = "RouterThrew" /\ ~lastRetryable) =>
       /\ thrown = lastError
       /\ thrown.from = LastAttempt
       /\ Len(attempts) = i + 1

\* the first provider fails for good while two providers are still untried
C3_Witness ==
  /\ pc = "RouterThrew"
  /\ ~lastRetryable
  /\ NumProviders = 3
  /\ Len(attempts) = 1

\* C4: the sticky index changes only in the step in which an adapter call
\* succeeds, a sendTurn that throws leaves it at its value at the start of the
\* call, and the cascade never changes.
C4_StickyOnlyOnSuccess ==
  [][ /\ currentIndex' # currentIndex =>
           (pc = "AwaitingModel" /\ pc' = "LoopCheck" /\ currentIndex' = answeredBy')
      /\ pc' = "RouterThrew" => currentIndex' = startIndex'
      /\ providerConfigs' = providerConfigs ]_vars

\* a sendTurn that started on the second provider throws after two attempts
C4_Witness ==
  /\ pc = "RouterThrew"
  /\ startIndex = 1
  /\ currentIndex = 1
  /\ Len(attempts) >= 2

\* C5: the attempts of one sendTurn go to the cascade indexes
\* (sticky index at entry + 0, 1, 2, ...) mod n: no provider twice, at most n.
C5_AttemptOrder ==
  pc \in {"AwaitingModel", "LoopCheck", "RouterThrew"} =>
    /\ Len(attempts) >= 1
    /\ Len(attempts) <= NumProviders
    /\ \A k \in 1..Len(attempts) : attempts[k] = (startIndex + (k - 1)) % NumProviders
    /\ \A k, j \in 1..Len(attempts) : k # j => attempts[k] # attempts[j]
    /\ pc = "AwaitingModel" => startIndex = currentIndex

\* the attempts wrap around the end of the cascade
C5_Witness ==
  /\ pc = "AwaitingModel"
  /\ attempts = <<1, 2, 0>>

\* the classification as the specification words it
RetryableStatuses == {429, 500, 503}
RetryableCodes == {ECONNRESET, ETIMEDOUT, ENOTFOUND}
RetryableMarkers == { <<"4", "2", "9">>, <<"5", "0", "0">>, <<"5", "0", "3">>, <<"r", "a", "t", "e", " ", "l", "i", "m", "i", "t">> }

SaidRetryable(error) ==
  \/ ErrorStatus(error).t = "number" /\ ErrorStatus(error).n \in RetryableStatuses
  \/ error.code.t = "string" /\ error.code.s \in RetryableCodes
  \/ \E marker \in RetryableMarkers : Includes(ErrorMessage(error), marker)

\* C6: an error is classified retryable exactly if its status is 429, 500 or
\* 503, or its code is ECONNRESET, ETIMEDOUT or ENOTFOUND, or its message
\* contains 429, 500, 503 or 'rate limit'.
C6_RetryableClassification ==
  pc = "Classified" => (lastRetryable <=> SaidRetryable(lastError.error))

\* an error without status and code that is retryable for its message alone
C6_Witness ==
  /\ pc = "Classified"
  /\ lastRetryable
  /\ ErrorStatus(lastError.error).t = "undefined"
  /\ lastError.error.code.t = "undefined"
  /\ Includes(ErrorMessage(lastError.error), <<"r", "a", "t", "e", " ", "l", "i", "m", "i", "t">>)

\* what the claims call a result that carries calls
CarriesCalls(resp) == resp.hasCalls /\ resp.functionCalls # <<>>

ToolOps == {"fs.readdir", "fs.stat", "fs.readFile", "fs.access", "fs.mkdir", "fs.writeFile", "execa"}

\* the named calls of the current result in front of position k
NamedBefore(k) ==
  Cardinality({j \in 1..Len(response.functionCalls) : j < k /\ response.functionCalls[j].name # ""})

\* C7: when the history is resubmitted for a result with k calls, it ends with
\* the assistant turn of that result followed by exactly k tool turns, the
\* j-th of them carrying the id and the name of the j-th call.
C7_OneToolTurnPerCall ==
  (pc = "AwaitingModel" /\ CarriesCalls(response)) =>
    LET calls == response.functionCalls
        k == Len(calls)
        m == Len(messages)
    IN /\ m >= k + 2
       /\ messages[m - k].role = "assistant"
       /\ messages[m - k] = AssistantMsg(response)
       /\ \A j \in 1..k :
            /\ messages[m - k + j].role = "tool"
            /\ messages[m - k + j].toolCallId = calls[j].id
            /\ messages[m - k + j].name = calls[j].name
       /\ full = buildMessagesWithSystem(messages)

\* C8: in every history handed to an adapter, the nearest turn in front of a
\* tool turn that is not a tool turn is an assistant turn, and one of its
\* calls has the id the tool turn carries.
C8_ToolTurnsFollowTheirAssistant ==
  pc = "AwaitingModel" =>
    \A k \in 1..Len(full) :
      full[k].role = "tool" =>
        \E a \in 1..(k - 1) :
          /\ full[a].role = "assistant"
          /\ \A j \in (a + 1)..k : full[j].role = "tool"
          /\ \E c \in 1..Len(full[a].functionCalls) :
               full[a].functionCalls[c].id = full[k].toolCallId

\* a submitted history with two assistant turns, each answered by tool turns
C8_Witness ==
  /\ pc = "AwaitingModel"
  /\ \E a, b \in 1..Len(full) :
       /\ a + 1 < b
       /\ b < Len(full)
       /\ full[a].role = "assistant"
       /\ full[a + 1].role = "tool"
       /\ full[b].role = "assistant"
       /\ full[b + 1].role = "tool"

\* C9: at most one awaited operation (provider round trip, tool operation,
\* confirmation prompt) is outstanding; while a tool operation or a prompt is
\* outstanding the results of all earlier calls of the batch are there; while
\* a provider call is outstanding no call of the batch is left.
C9_OneInFlight ==
  /\ inflight.provider + inflight.tool + inflight.prompt <= 1
  /\ inflight.provider = 1 <=> pc = "AwaitingModel"
  /\ inflight.tool = 1 <=> pc \in ToolOps
  /\ inflight.prompt = 1 <=> pc = "confirm"
  /\ (inflight.tool + inflight.prompt > 0) =>
       /\ callIdx <= Len(response.functionCalls)
       /\ Len(toolResults) = NamedBefore(callIdx)
  /\ (inflight.provider > 0 /\ CarriesCalls(response)) =>
       /\ callIdx = Len(response.functionCalls) + 1
       /\ Len(toolResults) = NamedBefore(callIdx)

\* the prompt of the second call of a batch, the result of the first is there
C9_Witness ==
  /\ pc = "confirm"
  /\ callIdx = 2
  /\ Len(toolResults) = 1
  /\ inflight = [provider |-> 0, tool |-> 0, prompt |-> 1]

\* C10: processInput leaves the loop exactly after a result without calls or
\* a throw of the Router; the text of that result, if any, is what is printed
\* as the answer; no tool operation starts for a result without calls.
C10_LoopExit ==
  [][ /\ (pc = "LoopCheck" /\ ~CarriesCalls(response)) =>
           /\ pc' = "Done"
           /\ messages' = messages
           /\ printed' = IF response.hasText /\ response.text # ""
                         THEN [kind |-> "final", text |-> response.text]
                         ELSE NothingPrinted
      /\ (pc = "LoopCheck" /\ CarriesCalls(response)) => pc' = "ForCall"
      /\ pc' = "Done" =>
           \/ pc = "RouterThrew"
           \/ pc = "LoopCheck" /\ ~CarriesCalls(response)
      /\ (pc' \in ToolOps \cup {"confirm"} \/ Len(toolResults') > Len(toolResults)) =>
           CarriesCalls(response) ]_vars

\* the loop is left with an empty list of calls after a round of tool results
C10_Witness ==
  /\ pc = "Done"
  /\ ~thrown.defined
  /\ response.hasCalls
  /\ response.functionCalls = <<>>
  /\ printed = [kind |-> "final", text |-> "done"]
  /\ Len(messages) >= 3

\* the calls of the assistant turns of a history
RECURSIVE CallsIn(_)
CallsIn(msgs) ==
  IF msgs = <<>> THEN 0
  ELSE (IF msgs[1].role = "assistant" THEN Len(msgs[1].functionCalls) ELSE 0)
       + CallsIn(Tail(msgs))

\* C11: every history submitted for a user line starts with that line's one
\* user turn; behind it there are only the assistant turns of the results this
\* line got (each with calls, together the calls asked for on this line) and
\* their tool turns: no turn of an earlier line is part of it.
C11_FreshHistoryPerLine ==
  pc = "AwaitingModel" =>
    /\ Len(messages) >= 1
    /\ messages[1].role = "user"
    /\ \A k \in 2..Len(messages) : messages[k].role \in {"assistant", "tool"}
    /\ \A k \in 2..Len(messages) :
         messages[k].role = "assistant" => Len(messages[k].functionCalls) >= 1
    /\ CallsIn(messages) = asked
    /\ Len(messages) <= 1 + 2 * asked
    /\ asked = 0 => messages = <<[role |-> "user", content |-> "hi"]>>
    /\ full = <<[role |-> "system", content |-> SYSTEM_PROMPT]>> \o messages

\* the first submission of the second line, after the first line wrote a file
\* with a tool call
C11_Witness ==
  /\ pc = "AwaitingModel"
  /\ lines = 2
  /\ Len(messages) = 1
  /\ Len(full) = 2
  /\ \E p \in DOMAIN fs : fs[p].exists

\* C12: a throw of the Router ends the line: the error message is printed,
\* no tool operation and no submission follows, processInput returns to the
\* loop of start, and the session reads the next line.
C12_RouterThrowEndsLine ==
  [][ /\ pc = "RouterThrew" =>
           /\ pc' = "Done"
           /\ printed' = [kind |-> "error", text |-> Str(ErrorMessage(thrown.error))]
           /\ messages' = messages
           /\ toolResults' = toolResults
           /\ fs' = fs
           /\ inflight' = NoInflight
      /\ (pc = "Done" /\ thrown.defined) =>
           /\ pc' = "Idle"
           /\ printed' = printed
           /\ fs' = fs
           /\ inflight' = NoInflight
      /\ (pc = "Idle" /\ printed.kind = "error") =>
           /\ lines' = lines + 1
           /\ pc' \in {"AwaitingModel", "Exited"}
           /\ pc' = "AwaitingModel" => Len(full') = 2 ]_vars

\* the session is back at its prompt after the second submission of a line
\* failed: a file was written for the first result, the error is reported
C12_Witness ==
  /\ pc = "Idle"
  /\ printed.kind = "error"
  /\ lines < MaxLines
  /\ \E p \in DOMAIN fs : fs[p].exists
  /\ ENABLED (\E input \in UserInputs : UserLine(input))

HasSystemTurn(msgs) == \E k \in 1..Len(msgs) : msgs[k].role = "system"

\* C13: the history the Router hands to the adapter is the caller's history
\* with the system prompt put in front if the caller's history has no system
\* turn, the caller's history itself if it has one at any place; the caller's
\* history is left as it was.
C13_SystemTurnInjected ==
  [][ pc = "Send" =>
        /\ messages' = messages
        /\ IF HasSystemTurn(messages)
           THEN full' = messages
           ELSE /\ Len(full') = Len(messages) + 1
                /\ full'[1] = [role |-> "system", content |-> SYSTEM_PROMPT]
                /\ \A k \in 1..Len(messages) : full'[k + 1] = messages[k] ]_vars

\* a history whose only system turn is its last turn was handed on as it is
C13_Witness ==
  /\ pc = "AwaitingModel"
  /\ Len(messages) = 3
  /\ messages[1].role = "user"
  /\ messages[2].role = "assistant"
  /\ messages[3].role = "system"
  /\ full = messages

\* ---- the Recovering Adapter
IsSpanPiece(piece) == piece.kind = "span"
SpansOf(parts) == SelectSeq(parts, IsSpanPiece)

\* a response text made of ordinary text and marker spans only
SpansAndText ==
  /\ pc = "GroqReturned"
  /\ groq.present
  /\ groq.toolCalls = <<>>
  /\ \A k \in 1..Len(groq.parts) : groq.parts[k].kind \in {"span", "plain"}

ValidJson(payload) == JSONParse(payload).ok

\* the text with its one span replaced by a space
OneSpanBlanked(parts) ==
  LET k == CHOOSE j \in 1..Len(parts) : parts[j].kind = "span"
  IN TextOf(SubSeq(parts, 1, k - 1)) \o <<" ">> \o TextOf(SubSeq(parts, k + 1, Len(parts)))

OneJsonSpan ==
  /\ SpansAndText
  /\ Len(SpansOf(groq.parts)) = 1
  /\ ValidJson(SpansOf(groq.parts)[1].payload)

OneCallOfSpan(span) ==
  <<[id |-> "groq-repair-0", name |-> Str(span.name), args |-> JSONParse(span.payload).value]>>

\* C14 as claimed: for a text with one well-formed marker span the parser
\* returns the one call of that span, and the stripped text is the text with
\* the span replaced by one space.
C14_OneSpanOneCall ==
  OneJsonSpan =>
    /\ groq.calls = OneCallOfSpan(SpansOf(groq.parts)[1])
    /\ groq.strippedText = OneSpanBlanked(groq.parts)

\* C14 as amended: the stripped text is the text with the span replaced by one
\* space and then trimmed of the white space at its two ends.
C14_OneSpanOneCallTrimmed ==
  OneJsonSpan =>
    /\ groq.calls = OneCallOfSpan(SpansOf(groq.parts)[1])
    /\ groq.strippedText = Trim(OneSpanBlanked(groq.parts))
    /\ response = TurnResponse(TRUE, groq.strippedText, TRUE, groq.calls)

\* a span with a nested object between two words
C14_Witness ==
  /\ OneJsonSpan
  /\ Len(groq.parts) = 3
  /\ groq.parts[1] = Plain(<<"h", "i">>)
  /\ groq.parts[2].payload = <<"{", "\"", "a", "\"", ":", "{", "\"", "b", "\"", ":", "2", "}", "}">>
  /\ groq.parts[3].kind = "plain"
  /\ Len(groq.calls) = 1

\* C15: for a text with several well-formed marker spans the parser emits one
\* call per span, in the order of the spans, the k-th (from 0) with the id
\* groq-repair-k, the name of the span and its parsed payload.
C15_CallsInSpanOrder ==
  (SpansAndText /\ Len(SpansOf(groq.parts)) >= 2) =>
    LET spans == SpansOf(groq.parts)
    IN /\ Len(groq.calls) = Len(spans)
       /\ \A k \in 1..Len(spans) :
            /\ groq.calls[k].id = "groq-repair-" \o Str(Decimal(k - 1))
            /\ groq.calls[k].name = Str(spans[k].name)
            /\ groq.calls[k].args = parseArgs(spans[k].payload)
       /\ response.functionCalls = groq.calls

\* three spans with three names
C15_Witness ==
  /\ SpansAndText
  /\ Len(SpansOf(groq.parts)) = 3
  /\ Len(groq.calls) = 3
  /\ groq.calls[1].name = "read_file"
  /\ groq.calls[2].name = "f"
  /\ groq.calls[3].name = "g_1"
  /\ groq.calls[3].id = "groq-repair-2"

\* C16: a span whose payload is no JSON still yields its call, with an empty
\* argument mapping; the span is gone from the text, and sendTurn returns.
C16_BadPayloadEmptyArgs ==
  SpansAndText =>
    LET spans == SpansOf(groq.parts)
    IN /\ Len(groq.calls) = Len(spans)
       /\ \A k \in 1..Len(spans) :
            ~ValidJson(spans[k].payload) =>
              /\ groq.calls[k].name = Str(spans[k].name)
              /\ groq.calls[k].args = EmptyObject
       /\ spans # <<>> =>
            /\ ~Includes(groq.strippedText, PREFIX)
            /\ response.hasCalls
            /\ response.functionCalls = groq.calls
            /\ response.text = groq.strippedText
            /\ ~thrown.defined

\* the span with the payload {a} between a good span and a word
C16_Witness ==
  /\ SpansAndText
  /\ Len(groq.parts) = 3
  /\ groq.parts[1].kind = "span"
  /\ groq.parts[2].payload = <<"{", "a", "}">>
  /\ groq.parts[3] = Plain(<<"h", "i">>)
  /\ Len(groq.calls) = 2
  /\ groq.calls[2] = [id |-> "groq-repair-1", name |-> "F", args |-> EmptyObject]

\* the user texts that ask for a file, and the file names they give
AsksForFile == {UserNamesFile, UserCreatesAndCalls, UserWritesFile, UserMakesFile, UserPutsInFile}

NamedOrCalled(user) ==
  IF user = UserNamesFile THEN <<"n", "o", "t", "e", "s", ".", "t", "x", "t">>
  ELSE IF user = UserCreatesAndCalls THEN <<"a", "p", "p", ".", "j", "s">>
  ELSE IF user = UserRenamed THEN <<"x", ".", "t", "x", "t">>
  ELSE <<>>

CreatedMadeWritten(user) ==
  IF user = UserCreatesAndCalls THEN <<"m", "a", "i", "n", ".", "p", "y">>
  ELSE IF user = UserWritesFile THEN <<"o", "u", "t", ".", "m", "d">>
  ELSE <<>>

\* the most recent user turn of a history, '' if it has none
RECURSIVE MostRecentUser(_)
MostRecentUser(history) ==
  IF history = <<>> THEN <<>>
  ELSE IF history[Len(history)].role = "user" THEN history[Len(history)].content
  ELSE MostRecentUser(SubSeq(history, 1, Len(history) - 1))

IsBlank(chars) == \A k \in 1..Len(chars) : chars[k] \in {" ", "\n", "\t", "\r"}

\* a response made of a lead, at most one fenced block and a tail
LeadBlockTail ==
  /\ pc = "GroqReturned"
  /\ groq.present
  /\ Len(groq.parts) = 3
  /\ groq.parts[2].kind \in {"block", "none"}

HasFilledBlock(parts) ==
  /\ parts[2].kind = "block"
  /\ parts[2].closed
  /\ ~IsBlank(parts[2].body)

\* the call the heuristic makes up, whatever its path
IsEditFileCall(call, content) ==
  /\ call.id = "groq-heuristic-0"
  /\ call.name = "edit_file"
  /\ call.args.t = "object"
  /\ Len(call.args.members) = 2
  /\ call.args.members[1].key = <<"p", "a", "t", "h">>
  /\ call.args.members[2] = Member(<<"c", "o", "n", "t", "e", "n", "t">>, JsStr(content))

\* a language tag the opening fence of extractFirstCodeBlock accepts
IsWordTag(lang) == \A k \in 1..Len(lang) : lang[k] \in WordClass.set

TableFile(lang) ==
  IF ToLowerCase(lang) = <<"p", "y">> THEN <<"m", "a", "i", "n", ".", "p", "y">>
  ELSE IF ToLowerCase(lang) = <<"j", "s">> THEN <<"i", "n", "d", "e", "x", ".", "j", "s">>
  ELSE <<>>

\* C18: the path of the call the heuristic makes up is the file of a
\* named/called phrase of the most recent user turn, else the file behind
\* create/make/write, else the default of the block's language tag, else
\* output.txt.
C18_PathPriority ==
  (LeadBlockTail /\ groq.inferred) =>
    LET user == MostRecentUser(full)
        lang == groq.parts[2].lang
        path == IF NamedOrCalled(user) # <<>> THEN NamedOrCalled(user)
                ELSE IF CreatedMadeWritten(user) # <<>> THEN CreatedMadeWritten(user)
                ELSE IF TableFile(lang) # <<>> THEN TableFile(lang)
                ELSE <<"o", "u", "t", "p", "u", "t", ".", "t", "x", "t">>
    IN response.functionCalls[1].args.members[1] = Member(<<"p", "a", "t", "h">>, JsStr(path))

\* the turn and the response of the example
ExampleOfNotes ==
  /\ LeadBlockTail
  /\ MostRecentUser(full) = UserNamesFile
  /\ groq.toolCalls = <<>>
  /\ groq.parts[1].kind = "plain"
  /\ groq.parts[2].kind = "block"
  /\ groq.parts[2].closed

EndsWith(chars, suffix) ==
  Len(suffix) <= Len(chars) /\ SubSeq(chars, Len(chars) - Len(suffix) + 1, Len(chars)) = suffix

NotesCall(content) ==
  [id |-> "groq-heuristic-0", name |-> "edit_file",
   args |-> JsObj(<<Member(<<"p", "a", "t", "h">>, JsStr(<<"n", "o", "t", "e", "s", ".", "t", "x", "t">>)), Member(<<"c", "o", "n", "t", "e", "n", "t">>, JsStr(content))>>)]

\* C19 as claimed: after the user turn "create a file named notes.txt with
\* hello", a response with a fenced block of body hello yields the one call
\* edit_file{path: notes.txt, content: hello} and a text that ends with the
\* confirmation sentence.
C19_NotesExample ==
  (ExampleOfNotes /\ groq.parts[2].body = <<"h", "e", "l", "l", "o">>) =>
    /\ response.functionCalls = <<NotesCall(<<"h", "e", "l", "l", "o">>)>>
    /\ EndsWith(response.text, CONFIRMATION)

\* the lead and the tail of the responses, trimmed
TrimmedPart(part) ==
  IF part.text = <<>> THEN <<>>
  ELSE IF part.text = <<"H", "e", "r", "e", ":", "\n">> THEN <<"H", "e", "r", "e", ":">>
  ELSE <<"D", "o", "n", "e", ".">>

\* C19 as amended: for a block whose opening fence is followed by a tag of
\* word characters (or none) and a line break, the content of the call is the
\* text between that line and the closing fence, verbatim; the text is the
\* lead, the confirmation sentence and the tail, each trimmed and a blank
\* line apart, so it ends with the sentence exactly if no text follows the
\* block.
C19_NotesExampleRewritten ==
  (ExampleOfNotes /\ IsWordTag(groq.parts[2].lang) /\ ~IsBlank(groq.parts[2].body)) =>
    LET lead == TrimmedPart(groq.parts[1])
        tail == TrimmedPart(groq.parts[3])
    IN /\ response.functionCalls = <<NotesCall(groq.parts[2].body)>>
       /\ response.text = (IF lead = <<>> THEN <<>> ELSE lead \o <<"\n", "\n">>)
                            \o CONFIRMATION
                            \o (IF tail = <<>> THEN <<>> ELSE <<"\n", "\n">> \o tail)
       /\ EndsWith(response.text, CONFIRMATION) <=> tail = <<>>

\* the example with a line break in front of the closing fence and text
\* behind the block
C19_Witness ==
  /\ ExampleOfNotes
  /\ groq.parts[1].text # <<>>
  /\ groq.parts[2].body = <<"h", "e", "l", "l", "o", "\n">>
  /\ groq.parts[3].text # <<>>
  /\ groq.inferred
  /\ response.functionCalls = <<NotesCall(<<"h", "e", "l", "l", "o", "\n">>)>>

\* ---- resolveProjectPath
\* the argument a tool hands to resolveProjectPath, <<>> if it does not call it
PathArgument(call) ==
  IF call.name = "list_files" THEN (IF call.args.path.s = <<>> THEN <<".">> ELSE call.args.path.s)
  ELSE call.args.path.s

\* at the root or under it: the root itself, or the root, a separator and more
AtOrUnderRoot(resolved) ==
  \/ resolved = <<"/", "w", "o", "r", "k">>
  \/ /\ Len(resolved) > Len(<<"/", "w", "o", "r", "k", "/">>)
     /\ SubSeq(resolved, 1, Len(<<"/", "w", "o", "r", "k", "/">>)) = <<"/", "w", "o", "r", "k", "/">>

OutsideRoot == ErrorResult("Access outside project root is not allowed")

\* C20: a tool that resolves the path p goes on with the lexically resolved
\* absolute path exactly if that path is the root /work or lies under it
\* (root, separator, more); otherwise resolveProjectPath throws and the tool
\* returns the error: ../outside and /work2/x fail, sub/file.txt gives
\* /work/sub/file.txt.
C20_PathContainment ==
  [][(pc = "ForCall" /\ callIdx = 1 /\ PathArgument(CurrentCall) # <<>>) =>
       LET p == PathArgument(CurrentCall)
           resolved == PathResolve(<<"/", "w", "o", "r", "k">>, p)
           returns == /\ pc' \in {"fs.readdir", "fs.stat"}
                      /\ tool'.targetPath = resolved
                      /\ toolResults' = <<>>
           throws == /\ pc' = "ForCall"
                     /\ toolResults' = <<ToolMsg(CurrentCall, OutsideRoot)>>
       IN /\ IF AtOrUnderRoot(resolved) THEN returns ELSE throws
          /\ p \in {<<".", ".", "/", "o", "u", "t", "s", "i", "d", "e">>, <<"/", "w", "o", "r", "k", "2", "/", "x">>, <<"/", "w", "o", "r", "k", "2">>, <<"/">>, <<"/", "w", "o", "r", "k", "/", ".", ".", "/", "w", "o", "r", "k", "2">>, <<"s", "u", "b", "/", ".", ".", "/", ".", ".">>} => throws
          /\ p = <<"s", "u", "b", "/", "f", "i", "l", "e", ".", "t", "x", "t">> => returns /\ tool'.targetPath = <<"/", "w", "o", "r", "k", "/", "s", "u", "b", "/", "f", "i", "l", "e", ".", "t", "x", "t">>
          /\ p \in {<<".">>, <<"/", "w", "o", "r", "k">>, <<"s", "u", "b", "/", ".", ".">>, <<".", ".", "/", "w", "o", "r", "k">>} => returns /\ tool'.targetPath = <<"/", "w", "o", "r", "k">>
          /\ p = <<"w", "o", "r", "k", "2", "/", "x">> => returns /\ tool'.targetPath = <<"/", "w", "o", "r", "k", "/", "w", "o", "r", "k", "2", "/", "x">>]_vars

\* read_file of sub/file.txt goes on with /work/sub/file.txt
C20_Witness ==
  /\ pc = "fs.stat"
  /\ response.functionCalls[1].args.path.s = <<"s", "u", "b", "/", "f", "i", "l", "e", ".", "t", "x", "t">>
  /\ tool.targetPath = <<"/", "w", "o", "r", "k", "/", "s", "u", "b", "/", "f", "i", "l", "e", ".", "t", "x", "t">>

\* ---- the tools
\* what the environment has done for the call so far
Ops == {performed[k] : k \in 1..Len(performed)}

\* the one call of the response
TheCall == response.functionCalls[1]

\* the call names a path that resolves outside the workspace root
EscapesRoot(call) ==
  /\ call.name \in {"list_files", "read_file", "edit_file"}
  /\ call.args.path.t = "string"
  /\ call.args.path.s # <<>>
  /\ ~AtOrUnderRoot(PathResolve(<<"/", "w", "o", "r", "k">>, call.args.path.s))

\* C21: list_files, read_file and edit_file with a path that resolves
\* outside the workspace root return an {error} result at once: the
\* environment is asked for nothing (no stat, access, readdir, read, mkdir or
\* write), no prompt is shown, and the files stay as they are.
C21_EscapeFailsClosed ==
  [][(pc = "ForCall" /\ callIdx = 1 /\ EscapesRoot(TheCall)) =>
       /\ pc' = "ForCall"
       /\ returned'.kind = "error"
       /\ toolResults' = <<ToolMsg(TheCall, returned')>>
       /\ performed' = <<>>
       /\ inflight' = NoInflight
       /\ fs' = fs]_vars

\* edit_file of ../out.txt has returned its error
C21_Witness ==
  /\ callIdx = 2
  /\ TheCall.name = "edit_file"
  /\ TheCall.args.path.s = <<".", ".", "/", "o", "u", "t", ".", "t", "x", "t">>
  /\ returned = ErrorResult("Access outside project root is not allowed")
  /\ performed = <<>>

\* the path read_file or edit_file is asked for, resolved
Target == PathResolve(<<"/", "w", "o", "r", "k">>, TheCall.args.path.s)

\* the size of the file in bytes
SizeOf(p) == ByteLength(FileAt(p).content)

LastPerformed == IF performed = <<>> THEN "" ELSE performed[Len(performed)]

\* the call stands at the gate: the prompt is shown, or auto-approve has
\* just let it through
AtGate == pc = "confirm" \/ LastPerformed = "auto"

\* the file is over 200 KiB, or reads are always to be confirmed
ReadNeedsGate == SizeOf(Target) > 204800 \/ (confirmFileReads /\ ~autoApprove)

\* C22: once fs.stat of read_file has succeeded the gate is reached exactly
\* if the file is larger than 204800 bytes or always-confirm-reads is in
\* effect; a read that needs the gate starts only from an approval, and a
\* decline returns {status: 'cancelled_by_user'} with the content never read.
C22_ReadGate ==
  [][TheCall.name = "read_file" =>
       /\ (pc = "fs.stat" /\ (FileAt(Target).exists \/ Target = <<"/", "w", "o", "r", "k">>)) =>
            /\ pc' \in {"confirm", "fs.readFile"}
            /\ AtGate' <=> ReadNeedsGate
       /\ (pc' = "fs.readFile" /\ ReadNeedsGate) =>
            /\ LastPerformed' \in {"yes", "auto"}
            /\ "no" \notin Ops'
       /\ LastPerformed' = "no" =>
            /\ pc = "confirm"
            /\ pc' = "ForCall"
            /\ returned' = CancelledResult
            /\ toolResults' = <<ToolMsg(TheCall, CancelledResult)>>
            /\ "fs.readFile" \notin Ops'
            /\ inflight' = NoInflight]_vars

\* a file of 204801 bytes was read after the user said yes, with reads not
\* always confirmed
C22_Witness ==
  /\ TheCall.name = "read_file"
  /\ ~confirmFileReads
  /\ ~autoApprove
  /\ SizeOf(Target) = 204801
  /\ performed = <<"fs.stat", "yes", "fs.readFile">>
  /\ returned.kind = "preview"

\* C23: an approved read_file returns truncated: true exactly if the file
\* has more than 204800 bytes, and content that is truncated has at most
\* 204800 bytes, whatever characters the file holds.
C23_TruncatedWithinThreshold ==
  (TheCall.name = "read_file" /\ returned.kind \in {"read", "preview"}) =>
    /\ returned.truncated <=> SizeOf(Target) > 204800
    /\ returned.truncated => ByteLength(returned.content) <= 204800

\* the characters of the text, for a text that is written out one by one
CharsOf(text) == [k \in 1..Len(text) |-> text[k].ch]

\* the content edit_file is asked to write: content || ""
AskedContent ==
  IF TheCall.args.content.t = "string" THEN TheCall.args.content.s ELSE <<>>

\* the directories between the root /work and the file are directories
ParentsAreDirectories(p) ==
  \A k \in 7..Len(p) : p[k] = "/" => FileAt(SubSeq(p, 1, k - 1)).dir

\* C24: when edit_file has returned success, the file at the resolved path
\* holds exactly the content of the call and nothing of what it held before,
\* its parent directories exist, and the directories were made and the file
\* written only after the gate had approved.
C24_FullReplace ==
  (TheCall.name = "edit_file" /\ returned.kind = "written") =>
    /\ FileAt(Target).exists
    /\ ~FileAt(Target).dir
    /\ \A k \in 1..Len(FileAt(Target).content) : FileAt(Target).content[k].n = 1
    /\ CharsOf(FileAt(Target).content) = AskedContent
    /\ ParentsAreDirectories(Target)
    /\ \/ performed = <<"fs.access", "yes", "fs.mkdir", "fs.writeFile">>
       \/ performed = <<"fs.access", "auto", "fs.mkdir", "fs.writeFile">>

\* edit_file of sub/file.txt has returned success after a yes, the file holds hello
C24_Witness ==
  /\ TheCall.name = "edit_file"
  /\ TheCall.args.path.s = <<"s", "u", "b", "/", "f", "i", "l", "e", ".", "t", "x", "t">>
  /\ returned.kind = "written"
  /\ FileAt(Target).content = <<[ch |-> "h", n |-> 1], [ch |-> "e", n |-> 1], [ch |-> "l", n |-> 1],
                                [ch |-> "l", n |-> 1], [ch |-> "o", n |-> 1]>>
  /\ "yes" \in Ops

\* the effects of the tools: a file's content read, a directory made, a file
\* written, a command run
Effects == {"fs.readFile", "fs.mkdir", "fs.writeFile", "execa exit 0", "execa exit 2"}

\* C25: the prompt of read_file, edit_file and run_command is shown before
\* any effect of the call, and a decline returns exactly
\* {status: 'cancelled_by_user'}, without an error field, with no effect: no
\* content read, no directory made, no file written, no command run.
C25_DeclineHasNoEffect ==
  [][pc = "confirm" =>
       /\ TheCall.name \in {"read_file", "edit_file", "run_command"}
       /\ Ops \cap Effects = {}
       /\ LastPerformed' = "no" =>
            /\ pc' = "ForCall"
            /\ returned' = [kind |-> "cancelled"]
            /\ toolResults' = <<[role |-> "tool", toolCallId |-> TheCall.id, name |-> TheCall.name,
                                content |-> "{\"status\":\"cancelled_by_user\"}"]>>
            /\ Ops' \cap Effects = {}
            /\ fs' = fs
            /\ inflight' = NoInflight]_vars

\* the user has declined the edit of a.txt, which holds what it held
C25_Witness ==
  /\ TheCall.name = "edit_file"
  /\ performed = <<"fs.access", "no">>
  /\ returned = CancelledResult
  /\ FileAt(Target).content = <<[ch |-> "h", n |-> 1], [ch |-> "i", n |-> 1]>>

\* the command holds one of the four blacklisted substrings
Blacklisted(command) ==
  \E blocked \in {<<"r", "m", " ", "-", "r", "f", " ", "/">>,
                  <<"m", "k", "f", "s">>,
                  <<":", "(", ")", "{", " ", ":", "|", ":", "&", " ", "}", ";", ":">>,
                  <<"d", "d", " ", "i", "f", "=", "/", "d", "e", "v", "/", "z", "e", "r", "o">>} :
    \E k \in 0..(Len(command) - Len(blocked)) :
      \A j \in 1..Len(blocked) : command[k + j] = blocked[j]

\* C26: run_command with a command that holds a blacklisted substring
\* returns an {error} result at once, with no prompt and nothing run, under
\* auto-approve too; any other command reaches the gate first, and a command
\* is run only from an approval.
C26_BlacklistBeforeGate ==
  [][TheCall.name = "run_command" =>
       /\ (pc = "ForCall" /\ callIdx = 1 /\ TheCall.args.command.t = "string"
             /\ TheCall.args.command.s # <<>>) =>
            IF Blacklisted(TheCall.args.command.s)
            THEN /\ pc' = "ForCall"
                 /\ returned' = ErrorResult("Command blocked by safety filter.")
                 /\ performed' = <<>>
                 /\ inflight' = NoInflight
            ELSE /\ AtGate'
                 /\ pc' = IF autoApprove THEN "execa" ELSE "confirm"
                 /\ Ops' \cap Effects = {}
       /\ pc' = "execa" => LastPerformed' \in {"yes", "auto"}]_vars

\* sudo mkfs.ext4 was refused under auto-approve
C26_Witness ==
  /\ TheCall.name = "run_command"
  /\ TheCall.args.command.s = <<"s", "u", "d", "o", " ", "m", "k", "f", "s", ".", "e", "x", "t", "4">>
  /\ autoApprove
  /\ callIdx = 2
  /\ returned = ErrorResult("Command blocked by safety filter.")
  /\ performed = <<>>

\* C27: a command that ran returns a success payload, and the exit code in
\* the payload is the code the command exited with.
C27_ExitCodeReported ==
  (TheCall.name = "run_command" /\ Ops \cap {"execa exit 0", "execa exit 2"} # {}) =>
    /\ returned.kind = "command"
    /\ "execa exit 0" \in Ops => returned.exitCode = 0
    /\ "execa exit 2" \in Ops => returned.exitCode = 2

\* where a call of execute can stand: back in the for loop, or at an awaited
\* operation of the environment
ExecutePlaces == {"ForCall", "fs.readdir", "fs.stat", "fs.readFile", "fs.access", "confirm",
                  "fs.mkdir", "fs.writeFile", "execa"}

\* no string, or the empty one
NoText(v) == v.t # "string" \/ v.s = <<>>

\* the call fails before anything is asked of the environment
FailsAtOnce(call) ==
  \/ call.name \notin {"list_files", "read_file", "edit_file", "run_command"}
  \/ call.name \in {"read_file", "edit_file"} /\ NoText(call.args.path)
  \/ call.name = "list_files" /\ call.args.path.t = "number" /\ call.args.path.n # 0
  \/ call.name = "run_command" /\ NoText(call.args.command)
  \/ call.name = "run_command" /\ Blacklisted(call.args.command.s)
  \/ EscapesRoot(call)

\* the operation the call waits for fails
OperationFails ==
  \/ pc = "fs.readdir" /\ tool.targetPath # <<"/", "w", "o", "r", "k">> /\ ~FileAt(tool.targetPath).dir
  \/ pc = "fs.stat" /\ tool.targetPath # <<"/", "w", "o", "r", "k">> /\ ~FileAt(tool.targetPath).exists
  \/ pc = "fs.readFile" /\ (tool.targetPath = <<"/", "w", "o", "r", "k">> \/ FileAt(tool.targetPath).dir)
  \/ pc = "fs.access" /\ TheCall.args.content.t = "number" /\ TheCall.args.content.n # 0
  \/ pc = "fs.mkdir" /\ ~ParentsAreDirectories(tool.targetPath)
       /\ \E k \in 7..Len(tool.targetPath) :
            tool.targetPath[k] = "/" /\ FileAt(SubSeq(tool.targetPath, 1, k - 1)).exists
  \/ pc = "fs.writeFile" /\ (tool.targetPath = <<"/", "w", "o", "r", "k">> \/ FileAt(tool.targetPath).dir)

\* C28: a call of execute, whatever its name and arguments, goes from one
\* awaited operation to the next and then returns a value to the for loop,
\* which appends the tool turn of the call and goes on: no error reaches
\* processInput, and every failure (unknown tool, missing argument, path
\* outside the root, failed operation) is returned as {error: message}.
C28_ExecuteNeverThrows ==
  [][/\ pc' \in ExecutePlaces
     /\ thrown' = NoError
     /\ pc' = "ForCall" =>
          /\ callIdx' = 2
          /\ returned'.kind # "none"
          /\ toolResults' = <<[role |-> "tool", toolCallId |-> TheCall.id, name |-> TheCall.name,
                              content |-> JSONStringify(returned')]>>
     /\ ((pc = "ForCall" /\ FailsAtOnce(TheCall)) \/ OperationFails) =>
          /\ pc' = "ForCall"
          /\ returned'.kind = "error"
          /\ returned'.error # ""]_vars

\* the unknown tool delete_file has returned its error
C28_Witness ==
  /\ TheCall.name = "delete_file"
  /\ callIdx = 2
  /\ returned = ErrorResult("Unknown tool: delete_file")
  /\ Len(toolResults) = 1
  /\ pc = "ForCall"

\* what writes a file or runs a command
WritesAndRuns == {"fs.mkdir", "fs.writeFile", "execa exit 0", "execa exit 2"}

\* the call being executed was approved before it wrote or ran anything
ApprovedFirst(approval) ==
  \E k \in 1..Len(performed) :
    /\ performed[k] = approval
    /\ \A j \in 1..(k - 1) : performed[j] \notin WritesAndRuns

\* C29: under auto-approve confirmAction returns true and no prompt is ever
\* shown; without it the prompt is shown and the call goes on exactly as the
\* user answers, on after a yes and back with 'cancelled_by_user' after a no.
\* So with the guard of the Agent, which has auto-approve off, a file is
\* written and a command is run only after a yes given within that same call.
C29_ConfirmBeforeEffect ==
  [][/\ autoApprove' = autoApprove
     /\ autoApprove =>
          /\ pc' # "confirm"
          /\ inflight'.prompt = 0
          /\ Ops' \cap {"yes", "no"} = {}
     /\ ~autoApprove => "auto" \notin Ops'
     /\ pc = "confirm" =>
          \/ LastPerformed' = "yes" /\ pc' \in {"fs.readFile", "fs.mkdir", "execa"}
          \/ LastPerformed' = "no" /\ pc' = "ForCall" /\ returned' = CancelledResult
     /\ (pc' \in {"fs.mkdir", "fs.writeFile", "execa"} \/ Ops' \cap WritesAndRuns # {}) =>
          ApprovedFirst(IF autoApprove THEN "auto" ELSE "yes")']_vars

\* auto-approve is off, the first call of the response has written its file,
\* and the second runs its command after a yes of its own
C29_Witness ==
  /\ ~autoApprove
  /\ pc = "execa"
  /\ callIdx = 2
  /\ Len(toolResults) = 1
  /\ toolResults[1].name = "edit_file"
  /\ toolResults[1].content = "{\"status\":\"success\",\"message\":\"File a.txt written successfully.\"}"
  /\ performed = <<"yes">>

C31_LoggedProviderIsTried ==
  \A k \in 1..Len(logged) :
    /\ k + 1 <= Len(attempts)
    /\ Label(providerConfigs[attempts[k + 1] + 1]) = logged[k]


\* ------------------------------------------------------------------ C32
\* where the k-th piece of a text starts
OffsetOf(parts, k) == Len(TextOf(SubSeq(parts, 1, k - 1)))

\* the marker at idx is malformed: no identifier start behind it, or no "{"
\* behind the name and one optional "(", or braces that never get back to 0
MalformedAt(text, idx) ==
  LET Unclosed(braceStart) ==
        \/ braceStart >= Len(text)
        \/ At(text, braceStart) # "{"
        \/ BraceEnd(text, braceStart, 0) >= Len(text)
      NoPayload(afterName) ==
        \/ afterName >= Len(text)
        \/ Unclosed(IF At(text, afterName) = "(" THEN SkipSpace(text, afterName + 1)
                    ELSE afterName)
      nameStart == idx + Len(PREFIX)
  IN \/ nameStart >= Len(text)
     \/ ~IsIdentStart(At(text, nameStart))
     \/ NoPayload(SkipSpace(text, NameEnd(text, nameStart + 1)))

\* a response text of spans, ordinary text and at least one broken marker,
\* every broken marker being malformed where it stands
SpansAmongMalformed ==
  /\ pc = "GroqReturned"
  /\ groq.present
  /\ groq.toolCalls = <<>>
  /\ \E k \in 1..Len(groq.parts) : groq.parts[k].kind = "junk"
  /\ \A k \in 1..Len(groq.parts) : groq.parts[k].kind \in {"span", "plain", "junk"}
  /\ \A k \in 1..Len(groq.parts) :
       groq.parts[k].kind = "junk" =>
         MalformedAt(TextOf(groq.parts), OffsetOf(groq.parts, k))

\* C32: a malformed marker emits no call and the scan goes on behind it, so
\* the calls of a text with malformed markers are those of its well-formed
\* spans, one per span and in their order
C32_ScanPassesMalformed ==
  SpansAmongMalformed =>
    LET spans == SpansOf(groq.parts)
    IN /\ Len(groq.calls) = Len(spans)
       /\ \A k \in 1..Len(spans) :
            /\ groq.calls[k].name = Str(spans[k].name)
            /\ groq.calls[k].args = parseArgs(spans[k].payload)


\* ------------------------------------------------------------------ C33
\* position k of a payload lies inside a string literal
InString(payload, k) == Cardinality({m \in 0..(k - 1) : At(payload, m) = "\""}) % 2 = 1

BracesInStrings(payload, brace) ==
  {k \in 0..(Len(payload) - 1) : At(payload, k) = brace /\ InString(payload, k)}

\* the depth behind position k when every brace counts
DepthBehind(payload, k) ==
  Cardinality({m \in 0..k : At(payload, m) = "{"}) - Cardinality({m \in 0..k : At(payload, m) = "}"})

\* the first position at which the depth is back at 0
CutOf(payload) ==
  CHOOSE k \in 0..(Len(payload) - 1) :
    /\ DepthBehind(payload, k) = 0
    /\ \A m \in 0..(k - 1) : DepthBehind(payload, m) # 0

\* what follows the cut up to the end of the span
RestOf(q) ==
  Slice(q.payload, CutOf(q.payload) + 1, Len(q.payload))
    \o (IF q.paren THEN <<")">> ELSE <<>>) \o <<">">>

\* the rest without what the parser takes as the end of the span: white
\* space, one ")" and one ">"
BehindSpanEnd(rest) ==
  LET Angle(k) == IF k < Len(rest) /\ At(rest, k) = ">" THEN k + 1 ELSE k
      Paren(k) == Angle(IF k < Len(rest) /\ At(rest, k) = ")" THEN SkipSpace(rest, k + 1) ELSE k)
      Kept(k) == IF k < Len(rest) THEN Slice(rest, k, Len(rest)) ELSE <<>>
  IN Kept(Paren(SkipSpace(rest, 0)))

\* a response text with one span whose payload has a "}" inside a string
QuotedSpan ==
  /\ pc = "GroqReturned"
  /\ groq.present
  /\ Len(groq.parts) = 3
  /\ groq.parts[2].kind = "quoted"
  /\ BracesInStrings(groq.parts[2].payload, "}") # {}

\* the text in front of the span as the stripped text has it
FrontOf(piece) == IF piece.kind = "span" THEN <<" ">> ELSE piece.text

\* C33 as claimed: a payload with a "}" inside a string value ends the match
\* early; the call has the parse result of the cut payload and the rest of
\* the payload stays in the stripped text.
C33_BraceInStringEndsEarly ==
  QuotedSpan =>
    LET q == groq.parts[2]
        Cut(cut) ==
          /\ cut + 1 < Len(q.payload)
          /\ groq.calls # <<>>
          /\ groq.calls[Len(groq.calls)].name = Str(q.name)
          /\ groq.calls[Len(groq.calls)].args = parseArgs(Slice(q.payload, 0, cut + 1))
          /\ IndexOf(groq.strippedText, Slice(q.payload, cut + 1, Len(q.payload)), 0) # -1
    IN Cut(CutOf(q.payload))

\* C33 as amended: the brace scan counts the braces inside strings too; a
\* payload with a "}" and no "{" inside its strings ends the match early, at
\* the first position where the depth is back at 0; the call has the parse
\* result of the cut payload, {} when it does not parse, and what follows the
\* cut stays in the stripped text, but for the white space, the ")" and the
\* ">" right behind the cut, which end the span.
C33_ClosingBraceInStringEndsEarly ==
  (QuotedSpan /\ BracesInStrings(groq.parts[2].payload, "{") = {}) =>
    LET q == groq.parts[2]
        Cut(cut) ==
          /\ cut + 1 < Len(q.payload)
          /\ Len(groq.calls) = Len(SpansOf(<<groq.parts[1]>>)) + 1
          /\ groq.calls[Len(groq.calls)].name = Str(q.name)
          /\ groq.calls[Len(groq.calls)].args = parseArgs(Slice(q.payload, 0, cut + 1))
          /\ ~JSONParse(Slice(q.payload, 0, cut + 1)).ok => groq.calls[Len(groq.calls)].args = EmptyObject
          /\ groq.strippedText
               = Trim(FrontOf(groq.parts[1]) \o <<" ">> \o BehindSpanEnd(RestOf(q))
                        \o groq.parts[3].text)
          /\ response = TurnResponse(TRUE, groq.strippedText, TRUE, groq.calls)
    IN Cut(CutOf(q.payload))

\* the payload {"c":"a}b"} in parentheses, cut behind a}
C33_Witness ==
  /\ QuotedSpan
  /\ groq.parts[2].paren
  /\ BracesInStrings(groq.parts[2].payload, "{") = {}
  /\ Len(groq.calls) = 1
  /\ groq.strippedText = <<"h", "i", " ", "b", "\"", "}", ")", ">">>


\* ------------------------------------------------------------------ C34
NotSystem(turn) == turn.role # "system"

\* the contents of the history in full have been built
ContentsBuilt == pc \in {"GeminiAwaiting", "GeminiReturned", "GeminiThrew"}

\* an assistant turn with neither text nor calls
Silent(turn) == turn.role = "assistant" /\ turn.content = "" /\ turn.functionCalls = <<>>

AsksOf(turn) ==
  [k \in 1..Len(turn.functionCalls) |->
     [functionCall |-> [name |-> turn.functionCalls[k].name,
                        args |-> IF turn.functionCalls[k].args = JsUndef THEN EmptyObject
                                 ELSE turn.functionCalls[k].args]]]

AnswerOf(turn) ==
  [functionResponse |->
     [id |-> turn.toolCallId, name |-> turn.name,
      response |-> IF ValidJson(turn.content) THEN [result |-> JSONParse(turn.content).value]
                   ELSE [result |-> JsStr(turn.content)]]]

\* the entry that a user turn or an assistant turn has for itself
OwnEntry(turn) ==
  IF turn.role = "user" THEN [role |-> "user", parts |-> <<[text |-> turn.content]>>]
  ELSE [role |-> "model",
        parts |-> (IF turn.content # "" THEN <<[text |-> turn.content]>> ELSE <<>>) \o AsksOf(turn)]

\* C34 as claimed: the contents have one entry for every user, assistant and
\* tool turn of the history, in the order of the turns.
C34_OneEntryPerTurn ==
  ContentsBuilt =>
    LET turns == SelectSeq(full, NotSystem)
    IN /\ Len(contents) = Len(turns)
       /\ \A k \in 1..Len(turns) :
            contents[k] = IF turns[k].role = "tool"
                          THEN [role |-> "user", parts |-> <<AnswerOf(turns[k])>>]
                          ELSE OwnEntry(turns[k])

\* the k-th turn begins a run: it is no tool turn, or the turn before it is none
BeginsRun(turns, k) == k = 1 \/ turns[k].role # "tool" \/ turns[k - 1].role # "tool"

\* the entry the k-th turn goes to, and its place among the parts of a run
EntryOf(turns, k) == Cardinality({j \in 1..k : BeginsRun(turns, j) /\ ~Silent(turns[j])})
PlaceOf(turns, k) == Cardinality({j \in 1..k : \A m \in (j + 1)..k : ~BeginsRun(turns, m)})

\* C34 as amended: in the order of the history, every user turn and every
\* assistant turn that has text or calls has an entry of its own; the tool
\* turns between two such turns share one user entry, which holds the result
\* of each, keyed by its call id, in their order; system turns and assistant
\* turns with neither text nor calls have no entry.
C34_EntriesInOrder ==
  ContentsBuilt =>
    LET turns == SelectSeq(full, NotSystem)
    IN /\ Len(contents) = EntryOf(turns, Len(turns))
       /\ \A k \in 1..Len(turns) :
            CASE turns[k].role = "tool" ->
                   /\ contents[EntryOf(turns, k)].role = "user"
                   /\ PlaceOf(turns, k) <= Len(contents[EntryOf(turns, k)].parts)
                   /\ contents[EntryOf(turns, k)].parts[PlaceOf(turns, k)] = AnswerOf(turns[k])
                   /\ (k = Len(turns) \/ BeginsRun(turns, k + 1)) =>
                        Len(contents[EntryOf(turns, k)].parts) = PlaceOf(turns, k)
              [] Silent(turns[k]) -> TRUE
              [] OTHER -> contents[EntryOf(turns, k)] = OwnEntry(turns[k])

\* an assistant turn with two calls and the two tool turns that answer it
C34_Witness ==
  /\ ContentsBuilt
  /\ Len(full) = 3
  /\ full[1].role = "assistant"
  /\ Len(full[1].functionCalls) = 2
  /\ full[2].role = "tool"
  /\ full[3].role = "tool"
  /\ full[2].toolCallId # full[3].toolCallId
  /\ Len(contents) = 2
  /\ Len(contents[2].parts) = 2


\* ------------------------------------------------------------------ C35
\* the result in hand asks for edit_file(p, c) and then read_file(p), with c
\* not empty and within the read threshold, and both calls have been answered
EditThenRead ==
  /\ Len(response.functionCalls) = 2
  /\ response.functionCalls[1].name = "edit_file"
  /\ response.functionCalls[2].name = "read_file"
  /\ response.functionCalls[1].args.path.t = "string"
  /\ response.functionCalls[2].args.path = response.functionCalls[1].args.path
  /\ ~EscapesRoot(response.functionCalls[1])
  /\ response.functionCalls[1].args.content.t = "string"
  /\ response.functionCalls[1].args.content.s # <<>>
  /\ ByteLength(Runs(response.functionCalls[1].args.content.s)) <= ReadThreshold
  /\ Len(toolResults) = 2

\* no confirmation of the batch was declined
BatchApproved ==
  \A k \in 1..Len(toolResults) : toolResults[k].content # JSONStringify(CancelledResult)

\* what read_file returns for a file that holds the text
ReadOf(text) ==
  [kind |-> "read", content |-> Runs(text), truncated |-> FALSE, size |-> ByteLength(Runs(text))]

\* C35: for a batch [edit_file(p, c), read_file(p)] of one model turn with
\* every confirmation approved, the tool turn of read_file carries the
\* content c that edit_file wrote: the write is complete before the read starts
C35_ReadSeesEdit ==
  (EditThenRead /\ BatchApproved) =>
    /\ toolResults[1].toolCallId = response.functionCalls[1].id
    /\ toolResults[2].toolCallId = response.functionCalls[2].id
    /\ toolResults[2].content = JSONStringify(ReadOf(response.functionCalls[1].args.content.s))

\* edit_file(a.txt, hello) and read_file(a.txt) of one turn, each approved at
\* its prompt, and the read has returned hello
C35_Witness ==
  /\ EditThenRead
  /\ BatchApproved
  /\ ~autoApprove
  /\ confirmFileReads
  /\ returned = ReadOf(<<"h", "e", "l", "l", "o">>)
  /\ toolResults[2].content = JSONStringify(returned)


\* ------------------------------------------------------------------ C36
\* C36: in every state of a Router with a cascade of n >= 1 providers the
\* sticky index is one of 0..n-1, it is 0 until a provider has answered, and
\* the first attempt of a sendTurn goes to the provider at the sticky index
\* the call found, which exists
C36_StickyIndexInRange ==
  /\ NumProviders >= 1
  /\ currentIndex \in 0..(NumProviders - 1)
  /\ answeredBy = -1 => currentIndex = 0
  /\ attempts # <<>> =>
       /\ attempts[1] = startIndex
       /\ attempts[1] + 1 \in DOMAIN providerConfigs
       /\ pc = "AwaitingModel" /\ Len(attempts) = 1 => attempts[1] = currentIndex

\* the sticky index is at the last of three providers and a later sendTurn
\* makes its first attempt there
C36_Witness ==
  /\ NumProviders = 3
  /\ currentIndex = 2
  /\ pc = "AwaitingModel"
  /\ attempts = <<2>>
  /\ lines = 2


\* ------------------------------------------------------------------ C37
\* the line being processed asks for a file
LineAsksForFile ==
  /\ messages # <<>>
  /\ messages[1].role = "user"
  /\ \E line \in AsksForFile : messages[1].content = Str(line)

\* the call the heuristic hands to the executor
IsHeuristicEdit(call) ==
  /\ call.id = "groq-heuristic-0"
  /\ call.name = "edit_file"
  /\ call.args.path = JsStr(<<"n", "o", "t", "e", "s", ".", "t", "x", "t">>)
  /\ call.args.content.t = "string"

AssistantTurnsOf(history) == SelectSeq(history, LAMBDA turn : turn.role = "assistant")

\* C37: with a backend that answers every round trip with a fenced block, the
\* heuristic makes up an edit_file call on every round trip of a line that
\* asks for a file, on the resubmissions of tool results as on the first
\* submission; the line never gets a result without calls and ends, if at
\* all, by an error of the Router. A line that asks for no file gets no call.
C37_HeuristicEveryRoundTrip ==
  /\ (pc = "LoopCheck" /\ LineAsksForFile) =>
       /\ Len(response.functionCalls) = 1
       /\ IsHeuristicEdit(response.functionCalls[1])
  /\ (pc = "LoopCheck" /\ ~LineAsksForFile) => ~HasCalls(response)
  /\ LineAsksForFile =>
       /\ \A k \in 1..Len(messages) : messages[k].role = "user" => k = 1
       /\ \A k \in 1..Len(AssistantTurnsOf(messages)) :
            /\ Len(AssistantTurnsOf(messages)[k].functionCalls) = 1
            /\ IsHeuristicEdit(AssistantTurnsOf(messages)[k].functionCalls[1])
       /\ pc = "Done" => printed.kind = "error"

\* the second round trip of a line that asks for notes.txt: the heuristic's
\* call of the first round trip was executed and answered, and the result of
\* the resubmission carries the heuristic's call again
C37_Witness ==
  /\ LineAsksForFile
  /\ pc = "LoopCheck"
  /\ Len(messages) = 3
  /\ messages[2].role = "assistant"
  /\ messages[3].role = "tool"
  /\ messages[3].toolCallId = "groq-heuristic-0"
  /\ IsHeuristicEdit(response.functionCalls[1])
  /\ FileAt(PathResolve(PROJECT_ROOT, <<"n", "o", "t", "e", "s", ".", "t", "x", "t">>)).exists


\* ------------------------------------------------------------------ C38
\* processInput is at work on a line
LineUnderWay == pc \notin {"Idle", "Exited"}

\* C38: when every round trip, tool operation and prompt settles and the
\* backends come to a result without calls (or the Router throws), the
\* processing of a line gets back to Idle; the loop takes another round for
\* every result with calls, however many there were, and is left only after a
\* result without calls or a throw of the Router.
C38_LineReturnsToIdle ==
  /\ LineUnderWay ~> (pc = "Idle")
  /\ [][ /\ (pc = "LoopCheck" /\ HasCalls(response)) =>
              (pc' = "ForCall" /\ asked' = asked + Len(response.functionCalls))
         /\ (LineUnderWay /\ pc' = "Done") =>
              (pc = "RouterThrew" \/ (pc = "LoopCheck" /\ ~HasCalls(response)))
         /\ (LineUnderWay /\ pc' = "Idle") => pc = "Done" ]_vars

\* a line is back at Idle after two round trips: a call was executed, its
\* result resubmitted, and the answer to that printed
C38_Witness ==
  /\ pc = "Idle"
  /\ lines = 1
  /\ printed.kind = "final"
  /\ answeredBy # -1
  /\ performed = <<>>
  /\ FileAt(PathResolve(PROJECT_ROOT, FileA)).exists

====
